---------------------------- MODULE Spec2Model ----------------------------
(***************************************************************************)
(* A model of the mytoml TOML parser (src/tomlfy.h, src/mytoml.h):         *)
(*   - the character tokenizer with its two-character look-back and its    *)
(*     backtrack;                                                          *)
(*   - the key tree and its redefinition rules (_Mytoml_AddSubKey,         *)
(*     _Mytoml_CompatibleKeys);                                            *)
(*   - the key parsers, the statement dispatch (_Mytoml_ParseKeyValue)     *)
(*     and the load loop (tomlLoadFile).                                   *)
(*                                                                         *)
(* Characters are one-element strings; the bytes that have no printable    *)
(* spelling are named (NUL, EOFc, NL, TAB, CR).  A buffer is a sequence of *)
(* characters; C's 0-based stream[i] is stream[i + 1] here.  Pointers to   *)
(* keys are indices into the heap `keys`; 0 is the NULL pointer.           *)
(***************************************************************************)
EXTENDS Integers, Sequences, FiniteSets, TLC

VARIABLES
    tok,        \* the Tokenizer struct (src/tomlfy.h:393-405)
    seen,       \* seen[c]: what the tokenizer held when its cursor first was c
    op,         \* the last tokenizer operation and its argument
    stype,      \* s->type: the kind of an existing key that is being redefined
    existing,   \* the kind it had when _Mytoml_CompatibleKeys was last asked
    current,    \* the kind of the key that redefined it
    verdict,    \* what _Mytoml_CompatibleKeys answered
    redefs,     \* number of redefinitions tried on the key
    keys,       \* the heap of TomlKey structs
    freed,      \* the keys handed to _Mytoml_DeleteKey
    calls,      \* the _Mytoml_AddSubKey calls of the last operation
    curkey,     \* tomlLoadFile's `key`: the current key
    status,     \* where tomlLoadFile is: "parsing" or "returned"
    toml,       \* what tomlLoadFile returned
    stmt,       \* the last _Mytoml_ParseKeyValue call: where it started, its
                \* branch, the key and kind of value it assigned, its result,
                \* and the keys that were assigned an inline table so far
    fault,      \* undefined behaviour met / unmodelled grammar entered
    arg,        \* the arguments of the function a call specification applies
    result      \* what the function returned and wrote

vars == <<tok, seen, op, stype, existing, current, verdict, redefs,
          keys, freed, calls, curkey, status, toml, stmt, fault, arg, result>>

tokVars == <<tok, seen, op>>
kindVars == <<stype, existing, current, verdict, redefs>>
loadVars == <<keys, freed, calls, curkey, status, toml, stmt, fault>>
callVars == <<arg, result>>

-----------------------------------------------------------------------------
(* Bounds of the model.                                                    *)

MaxBuf == 4         \* longest input buffer of the tokenizer specification
MaxBack == 2        \* largest count handed to _Mytoml_TokenizerBacktrace
MaxRedefs == 5      \* redefinitions tried on one node
SizeBits == 20      \* width of size_t in the model
MaxLines == 3       \* lines of a document of the load specification
MaxAdds == 4        \* _Mytoml_AddSubKey calls of the tree specification

-----------------------------------------------------------------------------
(* Characters.                                                             *)

NUL == "NUL"        \* '\0'
EOFc == "EOF"       \* (char)EOF, the sentinel _Mytoml_TokenizerLoadInput appends
NL == "NL"          \* '\n'
TAB == "TAB"        \* '\t'
CR == "CR"          \* '\r'
SP == " "
BS == "BS"          \* '\b'
FF == "FF"          \* '\f'

MYTOML_MAX_NUM_LINES == 16777216

-----------------------------------------------------------------------------
(* Tokenizer.                                                              *)

\* What a read outside an array yields is not defined by the language: the
\* tokenizer record carries the values such reads produce (`wildc` for the
\* stream, `wildi` for the column table) and the flag `ub` records that one
\* happened.
_Mytoml_NewTokenizer(stream, wc, wi) ==
    [stream |-> stream, cursor |-> 0, token |-> NUL, prev |-> NUL,
     prev_prev |-> NUL, line |-> 0, col |-> 0, is_null |-> TRUE,
     newline |-> FALSE, lines |-> << >>, ub |-> FALSE,
     wildc |-> wc, wildi |-> wi]

\* buffer[size] = EOF after the bytes of the file
_Mytoml_TokenizerLoadInput(bytes) == Append(bytes, EOFc)

StreamAt(t, i) ==
    IF i >= 0 /\ i < Len(t.stream) THEN t.stream[i + 1] ELSE t.wildc

LinesAt(t, i) ==
    IF i < 0 THEN t.wildi
    ELSE IF i < Len(t.lines) THEN t.lines[i + 1] ELSE 0

\* tok->lines[i] = v
LinesPut(lines, i, v) ==
    [k \in 1..(IF i + 1 > Len(lines) THEN i + 1 ELSE Len(lines)) |->
        IF k = i + 1 THEN v ELSE IF k <= Len(lines) THEN lines[k] ELSE 0]

\* The value _Mytoml_NextTokenizerToken returns.
NextReturns(t) == IF t.is_null \/ t.cursor = 0 THEN 1 ELSE 0

_Mytoml_NextTokenizerToken(t) ==
    LET pp == t.prev
        p == t.token
    IN  IF t.is_null \/ t.cursor = 0
        THEN LET c == StreamAt(t, t.cursor)
                 oob == ~(t.cursor < Len(t.stream))
                 nl1 == IF t.newline /\ p # NUL /\ p # SP /\ p # TAB /\ p # NL
                        THEN FALSE ELSE t.newline
                 nl2 == IF c = NL THEN TRUE ELSE nl1
                 lines2 == IF p = NL /\ t.line < MYTOML_MAX_NUM_LINES
                           THEN LinesPut(t.lines, t.line, t.col) ELSE t.lines
                 line2 == IF p = NL THEN t.line + 1 ELSE t.line
                 col2 == IF p = NL THEN 0 ELSE t.col + 1
             IN  [t EXCEPT !.prev_prev = pp, !.prev = p,
                           !.token = IF c = EOFc THEN NUL ELSE c,
                           !.cursor = t.cursor + 1,
                           !.newline = nl2, !.lines = lines2,
                           !.line = line2, !.col = col2,
                           !.is_null = IF c = EOFc THEN FALSE ELSE t.is_null,
                           !.ub = t.ub \/ oob]
        ELSE [t EXCEPT !.prev_prev = pp, !.prev = p]

\* while (tok->line >= 0 && pre_count > col)
\*     { pre_count -= col; col = tok->lines[--tok->line]; }
RECURSIVE BacktraceLines(_, _, _, _)
BacktraceLines(t, line, pre_count, col) ==
    IF line >= 0 /\ pre_count > col
    THEN BacktraceLines([t EXCEPT !.ub = t.ub \/ (line - 1 < 0)],
                        line - 1, pre_count - col, LinesAt(t, line - 1))
    ELSE [t |-> t, line |-> line, pre_count |-> pre_count, col |-> col]

BacktraceSucceeds(t, count) == count > 0 /\ t.cursor > count + 2

_Mytoml_TokenizerBacktrace(t, count) ==
    LET pre_count == count + 2
        Rewound(r, col1) ==
            [r.t EXCEPT !.cursor = t.cursor - pre_count,
                        !.is_null = TRUE,
                        !.line = IF r.line < 0 THEN 0 ELSE r.line,
                        !.col = IF col1 < 0 THEN 0 ELSE col1]
        Rewind(r) == Rewound(r, r.col - r.pre_count)
    IN  IF count > 0 /\ t.cursor > pre_count
        THEN _Mytoml_NextTokenizerToken(_Mytoml_NextTokenizerToken(
                 Rewind(BacktraceLines(t, t.line, pre_count, t.col))))
        ELSE t

_Mytoml_TokenizerHasToken(t) == t.is_null
_Mytoml_TokenizerGetToken(t) == t.token
_Mytoml_TokenizerGetPrev(t) == t.prev
_Mytoml_TokenizerGetPrevPrev(t) == t.prev_prev

-----------------------------------------------------------------------------
(* Key kinds and the redefinition rules.                                   *)

TOML_KEY == "TOML_KEY"
TOML_TABLE == "TOML_TABLE"
TOML_KEYLEAF == "TOML_KEYLEAF"
TOML_TABLELEAF == "TOML_TABLELEAF"
TOML_ARRAYTABLE == "TOML_ARRAYTABLE"

TomlKeyType == {TOML_KEY, TOML_TABLE, TOML_KEYLEAF, TOML_TABLELEAF, TOML_ARRAYTABLE}

NoKinds == "none"   \* no kind: _Mytoml_CompatibleKeys has not been asked
Allowed == "allowed"    \* _Mytoml_CompatibleKeys returned true
Denied == "denied"      \* _Mytoml_CompatibleKeys returned false

\* A rule set that forgets that a KEYLEAF is closed.
CompatibleKeysWithoutLeafRule(ex, cur) ==
    IF ex = TOML_TABLELEAF /\ cur = TOML_TABLELEAF THEN FALSE
    ELSE IF (ex = TOML_TABLELEAF \/ ex = TOML_KEY) /\ cur = TOML_TABLE THEN TRUE
    ELSE IF ex = TOML_TABLE /\ cur = TOML_TABLELEAF THEN TRUE
    ELSE IF ex = TOML_ARRAYTABLE /\ cur = TOML_TABLE THEN TRUE
    ELSE cur = ex

\* A rule set that lets a KEYLEAF be defined again as a KEYLEAF.
CompatibleKeysLeafTwice(ex, cur) ==
    IF ex = TOML_KEYLEAF THEN cur = TOML_KEYLEAF
    ELSE IF ex = TOML_TABLELEAF /\ cur = TOML_TABLELEAF THEN FALSE
    ELSE IF (ex = TOML_TABLELEAF \/ ex = TOML_KEY) /\ cur = TOML_TABLE THEN TRUE
    ELSE IF ex = TOML_TABLE /\ cur = TOML_TABLELEAF THEN TRUE
    ELSE IF ex = TOML_ARRAYTABLE /\ cur = TOML_TABLE THEN TRUE
    ELSE IF cur = ex THEN TRUE
    ELSE FALSE

_Mytoml_CompatibleKeys(ex, cur) ==
    IF ex = TOML_KEYLEAF THEN FALSE
    ELSE IF ex = TOML_TABLELEAF /\ cur = TOML_TABLELEAF THEN FALSE
    ELSE IF (ex = TOML_TABLELEAF \/ ex = TOML_KEY) /\ cur = TOML_TABLE THEN TRUE
    ELSE IF ex = TOML_TABLE /\ cur = TOML_TABLELEAF THEN TRUE
    ELSE IF ex = TOML_ARRAYTABLE /\ cur = TOML_TABLE THEN TRUE
    ELSE IF cur = ex THEN TRUE
    ELSE FALSE

\* A redefinition that never marks the table as defined.
RedefineWithoutLock(st, subtype) ==
    [ok |-> _Mytoml_CompatibleKeys(st, subtype), type |-> st]

\* The branch of _Mytoml_AddSubKey taken when a sibling s with the same id
\* exists: whether the new key is let in, and s->type afterwards.
Redefine(st, subtype) ==
    IF _Mytoml_CompatibleKeys(st, subtype)
    THEN [ok |-> TRUE,
          type |-> IF subtype = TOML_TABLELEAF THEN TOML_TABLELEAF ELSE st]
    ELSE [ok |-> FALSE, type |-> st]

-----------------------------------------------------------------------------
(* Values and keys.  The heap `keys` is the sequence of the TomlKey        *)
(* structs allocated so far; a pointer is an index into it.                *)

NULL == 0

\* size_t arithmetic is arithmetic modulo SizeMod; (size_t)-1 is SizeMax.
SizeMod == 2 ^ SizeBits
SizeMax == SizeMod - 1

\* The length of the identifier buffer, char id[MYTOML_MAX_ID_LENGTH]: 256 in
\* the source, 8 here.  The parsers know it by this name only.
MYTOML_MAX_ID_LENGTH == 8
MYTOML_MAX_STRING_LENGTH == 4096
\* The caps on the children of a key and on the elements of an array: 131072
\* each in the source, 4 here.  The code knows them by these names only.
MYTOML_MAX_SUBKEYS == 4
MYTOML_MAX_ARRAY_LENGTH == 4

TOML_INT == "TOML_INT"
TOML_FLOAT == "TOML_FLOAT"
TOML_BOOL == "TOML_BOOL"
TOML_ARRAY == "TOML_ARRAY"
TOML_INLINETABLE == "TOML_INLINETABLE"
TOML_STRING == "TOML_STRING"

\* A TomlValue: `data` is the key an inline table value points to, `num` the
\* text strtod converted (numbers) or the literal (booleans), `arr` the
\* elements stored before the terminating NULL.  NoValue is the NULL value.
NoValue ==
    [type |-> "NULL", data |-> NULL, num |-> << >>, str |-> << >>, arr |-> << >>,
     len |-> 0, precision |-> 0, scientific |-> FALSE]

\* v->data = calloc(1, strlen(s) + 1); memcpy(v->data, s, strlen(s))
_Mytoml_NewStringValue(chars) == [NoValue EXCEPT !.type = TOML_STRING, !.str = chars]

_Mytoml_NewNumberValue(d, type, precision, scientific) ==
    [NoValue EXCEPT !.type = type, !.num = d, !.precision = precision,
                    !.scientific = scientific]

_Mytoml_NewArrayValue == [NoValue EXCEPT !.type = TOML_ARRAY]

\* The state the parsing functions work on and what they return: the
\* tokenizer, the heap, the freed keys, the log of the _Mytoml_AddSubKey
\* calls, and the returned key (`ret`) or value (`val`).
\* `ub` records a dereference of a null or dangling pointer; `skipped`
\* records that a part of the grammar which is not modelled was entered.
Machine(t, ks) ==
    [tok |-> t, keys |-> ks, freed |-> {}, calls |-> << >>, ub |-> FALSE,
     skipped |-> FALSE, ret |-> NULL, val |-> NoValue, subkey |-> NULL,
     branch |-> "none"]

\* k = calloc(...); the new key is the last of the heap
_Mytoml_NewKey(m, type) ==
    [m EXCEPT !.keys = Append(m.keys, [type |-> type, id |-> << >>,
                                       subkeys |-> {}, value |-> NoValue,
                                       idx |-> SizeMax]),
              !.ret = Len(m.keys) + 1]

\* _Mytoml_FreeValue(v): the values it frees, in the order it frees them: the
\* elements of v->arr, then v with its data.
RECURSIVE _Mytoml_FreeValue(_)
_Mytoml_FreeValue(v) ==
    LET RECURSIVE Elements(_)
        Elements(arr) ==
            IF arr = << >> THEN << >>
            ELSE _Mytoml_FreeValue(Head(arr)) \o Elements(Tail(arr))
    IN  IF v = NoValue THEN << >> ELSE Elements(v.arr) \o <<v>>

\* The keys freed as the data of the values of a log of _Mytoml_FreeValue.
FreedData(log) ==
    {log[i].data : i \in {j \in 1..Len(log) : log[j].type = TOML_INLINETABLE}}

\* kh_destroy(key->subkeys) releases the map, not the keys in it.
_Mytoml_DeleteKey(m, key) ==
    IF key = NULL THEN m
    ELSE [m EXCEPT !.freed = m.freed \cup FreedData(_Mytoml_FreeValue(m.keys[key].value))
                                    \cup {key}]

tomlFree(m, key) == _Mytoml_DeleteKey(m, key)

\* kh_get(str, key->subkeys, subkey->id)
_Mytoml_HasSubKey(ks, key, subkey) ==
    LET same == {s \in ks[key].subkeys : ks[s].id = ks[subkey].id}
    IN  IF same = {} THEN NULL ELSE CHOOSE s \in same : TRUE

\* One entry of the call log: the arguments, the child s found with the new
\* key's identifier (its kind and the whole of it before and after the call)
\* and the returned pointer.
Call(ks, key, subkey, s, after, ret) ==
    [key |-> key, id |-> ks[subkey].id, type |-> ks[subkey].type, s |-> s,
     stype |-> IF s = NULL THEN NoKinds ELSE ks[s].type,
     before |-> IF s = NULL THEN << >> ELSE <<ks[s]>>,
     after |-> IF s = NULL THEN << >> ELSE <<after[s]>>,
     ret |-> ret]

\* A cap that lets one more child in.
SubKeysUpToCap(ks, key) == Cardinality(ks[key].subkeys) <= MYTOML_MAX_SUBKEYS

\* kh_size(key->subkeys) < MYTOML_MAX_SUBKEYS
SubKeysBelowCap(ks, key) == Cardinality(ks[key].subkeys) < MYTOML_MAX_SUBKEYS

RECURSIVE _Mytoml_AddSubKey(_, _, _)
_Mytoml_AddSubKey(m, key, subkey) ==
    LET ks == m.keys
        s == _Mytoml_HasSubKey(ks, key, subkey)
    IN  IF s # NULL
        THEN LET r == Redefine(ks[s].type, ks[subkey].type)
                 ks1 == [ks EXCEPT ![s].type = r.type]
                 ret == IF r.ok THEN s ELSE NULL
             IN  [m EXCEPT !.keys = ks1, !.ret = ret,
                           !.calls = Append(@, Call(ks, key, subkey, s, ks1, ret))]
        ELSE IF SubKeysBelowCap(ks, key)
        THEN IF ks[key].type = TOML_ARRAYTABLE
             THEN LET v == ks[key].value
                      i == ks[key].idx
                  IN  IF v.type = "NULL" \/ ~(i < Len(v.arr))
                      THEN \* key->value or key->value->arr[key->idx] is not
                           \* an object
                           [m EXCEPT !.ub = TRUE, !.ret = NULL]
                      ELSE LET a == _Mytoml_AddSubKey(m, v.arr[i + 1].data, subkey)
                           IN  [a EXCEPT !.calls = Append(@,
                                    Call(ks, key, subkey, NULL, ks, a.ret))]
             ELSE [m EXCEPT !.keys[key].subkeys = @ \cup {subkey},
                            !.ret = subkey,
                            !.calls = Append(@, Call(ks, key, subkey, NULL, ks, subkey))]
        ELSE [m EXCEPT !.ret = NULL,
                       !.calls = Append(@, Call(ks, key, subkey, NULL, ks, NULL))]

-----------------------------------------------------------------------------
(* Character classes.                                                      *)

Digit == {"0", "1", "2", "3", "4", "5", "6", "7", "8", "9"}
LowerCase == {"a", "b", "c", "d", "e", "f", "g", "h", "i", "j", "k", "l", "m",
              "n", "o", "p", "q", "r", "s", "t", "u", "v", "w", "x", "y", "z"}
UpperCase == {"A", "B", "C", "D", "E", "F", "G", "H", "I", "J", "K", "L", "M",
              "N", "O", "P", "Q", "R", "S", "T", "U", "V", "W", "X", "Y", "Z"}

_Mytoml_IsWhitespace(c) == c = SP \/ c = TAB
_Mytoml_IsNewline(c) == c = NL
_Mytoml_IsReturn(c) == c = CR
_Mytoml_IsCommentStart(c) == c = "#"
_Mytoml_IsEqual(c) == c = "="
_Mytoml_IsBasicStringStart(c) == c = "DQ"       \* '"'
_Mytoml_IsLiteralStringStart(c) == c = "'"
_Mytoml_IsTableStart(c) == c = "["
_Mytoml_IsTableEnd(c) == c = "]"
_Mytoml_IsInlineTableStart(c) == c = "{"
_Mytoml_IsInlineTableEnd(c) == c = "}"
_Mytoml_IsInlineTableSep(c) == c = ","
_Mytoml_IsDot(c) == c = "."
_Mytoml_IsDigit(c) == c \in Digit
_Mytoml_IsNumberStart(c) == c = "+" \/ c = "-" \/ _Mytoml_IsDigit(c)
_Mytoml_IsBareAscii(c) ==
    c \in UpperCase \/ c \in LowerCase \/ c = "_" \/ c = "-" \/ _Mytoml_IsDigit(c)
\* 0x00..0x1F and 0x7F except tab: of the characters of the model these
_Mytoml_Iscontrol(c) == c \in {NUL, BS, NL, FF, CR}
_Mytoml_IsEscape(c) == c = "\\"
_Mytoml_IsControlLiteral(c) == c \in {NUL, BS, FF, CR}
_Mytoml_IsNumberEnd(c, end) == c \in end
_Mytoml_IsDecimalPoint(c) == c = "."
_Mytoml_IsUnderscore(c) == c = "_"
_Mytoml_IsArrayStart(c) == c = "["
_Mytoml_IsArrayEnd(c) == c = "]"
\* A separator that a space also is.
ArraySepOrSpace(c) == c = "," \/ c = SP
_Mytoml_IsArraySep(c) == c = ","

-----------------------------------------------------------------------------
(* Whitespace, newlines and comments.  These work on the tokenizer alone.  *)
(* Where a function holds a result in a local variable and reads it more   *)
(* than once, the model hands the result to a local operator.              *)

RECURSIVE _Mytoml_ParseWhitespace(_)
_Mytoml_ParseWhitespace(t) ==
    IF _Mytoml_TokenizerHasToken(t) /\ _Mytoml_IsWhitespace(t.token)
    THEN _Mytoml_ParseWhitespace(_Mytoml_NextTokenizerToken(t))
    ELSE t

_Mytoml_ParseNewline(t) ==
    LET AfterReturn(a, t1) ==
            IF _Mytoml_IsNewline(t1.token) THEN [tok |-> t1, ok |-> TRUE]
            ELSE [tok |-> _Mytoml_TokenizerBacktrace(t1, a), ok |-> FALSE]
    IN  IF _Mytoml_IsNewline(t.token) THEN [tok |-> t, ok |-> TRUE]
        ELSE IF _Mytoml_IsReturn(t.token)
        THEN AfterReturn(NextReturns(t), _Mytoml_NextTokenizerToken(t))
        ELSE [tok |-> t, ok |-> FALSE]

RECURSIVE _Mytoml_ParseComment(_)
_Mytoml_ParseComment(t) ==
    LET AfterNext(n) ==
            IF n.ok THEN [tok |-> _Mytoml_NextTokenizerToken(n.tok), ok |-> TRUE]
            ELSE IF _Mytoml_Iscontrol(n.tok.token) THEN [tok |-> n.tok, ok |-> FALSE]
            ELSE _Mytoml_ParseComment(n.tok)
    IN  IF ~_Mytoml_TokenizerHasToken(t) THEN [tok |-> t, ok |-> TRUE]
        ELSE AfterNext(_Mytoml_ParseNewline(_Mytoml_NextTokenizerToken(t)))

-----------------------------------------------------------------------------
(* Keys.                                                                   *)

Fail(m) == [m EXCEPT !.ret = NULL, !.val = NoValue]
WithTok(m, t) == [m EXCEPT !.tok = t]
Advance(m) == [m EXCEPT !.tok = _Mytoml_NextTokenizerToken(m.tok)]
\* A part of the grammar that is not modelled was entered.
Skipped(m) == [Fail(m) EXCEPT !.skipped = TRUE]

\* subkey = _Mytoml_NewKey(type); memcpy(subkey->id, id, strlen(id))
NewKeyWithId(m, type, id) ==
    LET WithId(n) == [n EXCEPT !.keys[n.ret].id = id]
    IN  WithId(_Mytoml_NewKey(m, type))

RECURSIVE BareKeyLoop(_, _, _, _, _, _)
BareKeyLoop(m, end, branch, leaf, id, done) ==
    LET c == m.tok.token
    IN  IF ~_Mytoml_TokenizerHasToken(m.tok) THEN Fail(m)
        ELSE IF ~(Len(id) < MYTOML_MAX_ID_LENGTH) THEN Fail(m)
        ELSE IF _Mytoml_IsDot(c)
        THEN IF Len(id) = 0 THEN Fail(m) ELSE NewKeyWithId(m, branch, id)
        ELSE IF c = end
        THEN IF Len(id) = 0 THEN Fail(m) ELSE NewKeyWithId(m, leaf, id)
        ELSE IF _Mytoml_IsWhitespace(c)
        THEN BareKeyLoop(WithTok(m, _Mytoml_ParseWhitespace(m.tok)),
                         end, branch, leaf, id, TRUE)
        ELSE IF _Mytoml_IsBareAscii(c) /\ ~done
        THEN BareKeyLoop(Advance(m), end, branch, leaf, Append(id, c), done)
        ELSE Fail(m)

_Mytoml_ParserBareKey(m, end, branch, leaf) ==
    BareKeyLoop(m, end, branch, leaf, << >>, FALSE)

\* _Mytoml_ParserBAsicQuotedKey and _Mytoml_ParserLiteralQuotedKey: the loop
\* starts after the opening quote.  An escape in a basic quoted key is not
\* modelled.
RECURSIVE QuotedKeyLoop(_, _, _, _, _, _)
QuotedKeyLoop(m, end, branch, leaf, id, quote) ==
    LET c == m.tok.token
        Closed(t) ==
            IF _Mytoml_IsDot(t.token) THEN NewKeyWithId(WithTok(m, t), branch, id)
            ELSE IF t.token = end THEN NewKeyWithId(WithTok(m, t), leaf, id)
            ELSE Fail(WithTok(m, t))
    IN  IF ~_Mytoml_TokenizerHasToken(m.tok) THEN Fail(m)
        ELSE IF ~(Len(id) < MYTOML_MAX_ID_LENGTH) THEN Fail(m)
        ELSE IF c = quote
        THEN Closed(_Mytoml_ParseWhitespace(_Mytoml_NextTokenizerToken(m.tok)))
        ELSE IF _Mytoml_IsNewline(c) THEN Fail(m)
        ELSE IF _Mytoml_IsBasicStringStart(quote) /\ _Mytoml_IsEscape(c) THEN Skipped(m)
        ELSE IF _Mytoml_IsBasicStringStart(quote) /\ _Mytoml_Iscontrol(c) THEN Fail(m)
        ELSE IF _Mytoml_IsLiteralStringStart(quote) /\ _Mytoml_IsControlLiteral(c)
        THEN Fail(m)
        ELSE QuotedKeyLoop(Advance(m), end, branch, leaf, Append(id, c), quote)

_Mytoml_ParserBAsicQuotedKey(m, end, branch, leaf) ==
    QuotedKeyLoop(m, end, branch, leaf, << >>, "DQ")

_Mytoml_ParserLiteralQuotedKey(m, end, branch, leaf) ==
    QuotedKeyLoop(m, end, branch, leaf, << >>, "'")

\* The three key-path parsers differ in the character that ends the path,
\* in the kinds they give to the keys and in how the end is consumed.
KeyPath == [end |-> "=", branch |-> TOML_KEY, leaf |-> TOML_KEYLEAF, closing |-> 1]
TablePath == [end |-> "]", branch |-> TOML_TABLE, leaf |-> TOML_TABLELEAF, closing |-> 1]
ArrayTablePath == [end |-> "]", branch |-> TOML_TABLE, leaf |-> TOML_ARRAYTABLE, closing |-> 2]

RECURSIVE ParsePath(_, _, _, _)
ParsePath(m, key, expecting, path) ==
    LET c == m.tok.token
        SecondEnd(m1) ==
            IF _Mytoml_IsTableEnd(m1.tok.token) THEN [Advance(m1) EXCEPT !.ret = key]
            ELSE Fail(m1)
        Added(a) ==
            IF a.ret = NULL THEN Fail(a) ELSE ParsePath(a, a.ret, FALSE, path)
        Parsed(b) ==
            IF b.ret = NULL THEN Fail(b) ELSE Added(_Mytoml_AddSubKey(b, key, b.ret))
    IN  IF ~_Mytoml_TokenizerHasToken(m.tok) THEN Fail(m)
        ELSE IF c = path.end
        THEN IF expecting THEN Fail(m)
             ELSE IF path.closing = 1 THEN [Advance(m) EXCEPT !.ret = key]
             ELSE SecondEnd(Advance(m))
        ELSE IF _Mytoml_IsDot(c)
        THEN IF expecting THEN Fail(m)
             ELSE ParsePath(Advance(m), key, TRUE, path)
        ELSE IF _Mytoml_IsWhitespace(c)
        THEN ParsePath(WithTok(m, _Mytoml_ParseWhitespace(m.tok)), key, expecting, path)
        ELSE IF _Mytoml_IsBasicStringStart(c)
        THEN Parsed(_Mytoml_ParserBAsicQuotedKey(Advance(m), path.end,
                                                 path.branch, path.leaf))
        ELSE IF _Mytoml_IsLiteralStringStart(c)
        THEN Parsed(_Mytoml_ParserLiteralQuotedKey(Advance(m), path.end,
                                                   path.branch, path.leaf))
        ELSE Parsed(_Mytoml_ParserBareKey(m, path.end, path.branch, path.leaf))

_Mytoml_ParseKey(m, key, expecting) == ParsePath(m, key, expecting, KeyPath)
_Mytoml_ParseTable(m, key, expecting) == ParsePath(m, key, expecting, TablePath)
_Mytoml_ParseArrayTable(m, key, expecting) ==
    ParsePath(m, key, expecting, ArrayTablePath)

-----------------------------------------------------------------------------
(* Values.                                                                 *)

\* _Mytoml_AddSubKey(parent, c) for every c of children, in the order of the
\* hash table (here: some fixed order); `stop` says whether a failure ends
\* the loop.
RECURSIVE AddSubKeys(_, _, _, _)
AddSubKeys(m, parent, children, stop) ==
    LET Rest(c, a) ==
            IF a.ret = NULL /\ stop THEN Fail(a)
            ELSE AddSubKeys(a, parent, children \ {c}, stop)
        One(c) == Rest(c, _Mytoml_AddSubKey(m, parent, c))
    IN  IF children = {} THEN [m EXCEPT !.ret = parent]
        ELSE One(CHOOSE x \in children : TRUE)

_Mytoml_NewTableValue(m, k) ==
    LET Value(a, h) ==
            [a EXCEPT !.ret = NULL,
                      !.val = [NoValue EXCEPT !.type = TOML_INLINETABLE, !.data = h]]
        Copy(n) == Value(AddSubKeys(n, n.ret, n.keys[k].subkeys, FALSE), n.ret)
    IN  Copy(_Mytoml_NewKey(m, TOML_KEY))

\* The length of the run of digits of v that starts at position i.
\* The doubles that are not numbers of digits are held by name.
INFINITY == <<"i", "n", "f">>
MINUS_INFINITY == <<"-", "i", "n", "f">>
NAN == <<"n", "a", "n">>

\* _Mytoml_ParseInfNan: f is the double returned, << >> standing for 0.0.
_Mytoml_ParseInfNan(t, negative) ==
    LET Last(t2, f) == [tok |-> _Mytoml_NextTokenizerToken(t2), f |-> f]
        Nan(t2, f) ==
            IF t2.prev = "a" /\ t2.token = "n" THEN Last(t2, NAN) ELSE Last(t2, f)
        Second(t1, f) ==
            IF t1.token = "n"
            THEN Nan(_Mytoml_NextTokenizerToken(_Mytoml_NextTokenizerToken(t1)), f)
            ELSE Last(t1, f)
        Inf(t1) ==
            Second(t1, IF t1.prev = "n" /\ t1.token = "f"
                       THEN IF negative THEN MINUS_INFINITY ELSE INFINITY
                       ELSE << >>)
    IN  IF t.token = "i"
        THEN Inf(_Mytoml_NextTokenizerToken(_Mytoml_NextTokenizerToken(t)))
        ELSE Second(t, << >>)

RECURSIVE DigitRun(_, _)
DigitRun(v, i) ==
    IF i <= Len(v) /\ v[i] \in Digit THEN 1 + DigitRun(v, i + 1) ELSE 0

\* strtod(value, &end): the number of characters of v converted, for the
\* decimal forms [sign] digits [. digits] [e [sign] digits] and
\* [sign] . digits [...].
StrtodEnd(v) ==
    LET sg == IF Len(v) >= 1 /\ v[1] \in {"+", "-"} THEN 1 ELSE 0
        Exponent(mant) ==
            LET e == mant > 0 /\ mant + 1 <= Len(v) /\ v[mant + 1] \in {"e", "E"}
                es == IF e /\ mant + 2 <= Len(v) /\ v[mant + 2] \in {"+", "-"}
                      THEN 1 ELSE 0
                Digits(ed) == IF ed > 0 THEN mant + 1 + es + ed ELSE mant
            IN  Digits(IF e THEN DigitRun(v, mant + 2 + es) ELSE 0)
        Fraction(ip, dot, fp) ==
            Exponent(IF ip + fp = 0 THEN 0 ELSE sg + ip + (IF dot THEN 1 + fp ELSE 0))
        Point(ip, dot) == Fraction(ip, dot, IF dot THEN DigitRun(v, sg + ip + 2) ELSE 0)
        Whole(ip) == Point(ip, sg + ip + 1 <= Len(v) /\ v[sg + ip + 1] = ".")
    IN  Whole(DigitRun(v, sg + 1))

\* strtod also converts the names inf, infinity and nan in any case; they
\* start, after the sign, with one of these letters.
StrtodName(v) ==
    LET sg == IF Len(v) >= 1 /\ v[1] \in {"+", "-"} THEN 1 ELSE 0
    IN  sg + 1 <= Len(v) /\ v[sg + 1] \in {"I", "N", "i", "n"}

\* num != 0 for a value made of a sign and digits
NonZero(v) == \E i \in 1..Len(v) : v[i] \in Digit \ {"0"}

\* The end of _Mytoml_ParseNumber: the conversion and the leading-zero rules.
NumberEnd(m, value, n) ==
    IF StrtodName(value) THEN Skipped(m)
    ELSE IF StrtodEnd(value) # Len(value) THEN Fail(m)
    ELSE IF n.type = TOML_INT /\ NonZero(value)
            /\ (value[1] = "0"
                \/ (value[1] \in {"+", "-"} /\ Len(value) >= 2 /\ value[2] = "0"))
    THEN Fail(m)
    ELSE [m EXCEPT !.val = _Mytoml_NewNumberValue(
                       value, n.type,
                       IF n.precision > 0 THEN n.precision - 1 ELSE n.precision,
                       n.scientific)]

RECURSIVE NumberLoop(_, _, _, _)
NumberLoop(m, num_end, value, n) ==
    LET c == m.tok.token
        more == [n EXCEPT !.precision = IF @ > 0 THEN @ + 1 ELSE @]
        AfterZero(m1) ==
            IF m1.tok.token \in {"x", "o", "b"} THEN Skipped(m1)
            ELSE NumberLoop(m1, num_end, <<"0">>, n)
        SignedInfNan(r) ==
            IF r.f = << >> THEN NumberEnd(WithTok(m, r.tok), value, n)
            ELSE [m EXCEPT !.tok = r.tok,
                           !.val = _Mytoml_NewNumberValue(r.f, TOML_FLOAT, 0, FALSE)]
        AfterPoint(m1, value1, n1) ==
            IF ~(Len(value1) < MYTOML_MAX_STRING_LENGTH) THEN Fail(m)
            ELSE IF _Mytoml_IsDigit(m1.tok.token) /\ _Mytoml_IsDigit(m1.tok.prev_prev)
            THEN NumberLoop(Advance(m1), num_end, Append(value1, m1.tok.token),
                            [n1 EXCEPT !.precision = IF @ > 0 THEN @ + 1 ELSE @])
            ELSE Fail(m1)
    IN  IF ~_Mytoml_TokenizerHasToken(m.tok) THEN NumberEnd(m, value, n)
        ELSE IF ~(Len(value) < MYTOML_MAX_STRING_LENGTH) THEN Fail(m)
        ELSE IF _Mytoml_IsNumberEnd(c, num_end) THEN NumberEnd(m, value, n)
        ELSE IF Len(value) = 0 /\ c = "0" THEN AfterZero(Advance(m))
        ELSE IF _Mytoml_IsDecimalPoint(c)
        THEN AfterPoint(Advance(m), Append(value, c),
                        [n EXCEPT !.type = TOML_FLOAT, !.precision = 1])
        ELSE IF _Mytoml_IsUnderscore(c) THEN AfterPoint(Advance(m), value, n)
        ELSE IF c = "i" \/ c = "n"
        THEN IF Len(value) = 1 /\ (m.tok.prev = "+" \/ m.tok.prev = "-")
             THEN SignedInfNan(_Mytoml_ParseInfNan(m.tok, m.tok.prev = "-"))
             ELSE Fail(m)
        ELSE IF c \in {"x", "X", "b", "B", "o", "O"} THEN NumberEnd(m, value, n)
        ELSE NumberLoop(Advance(m), num_end, Append(value, c),
                        IF c = "e" \/ c = "E"
                        THEN [more EXCEPT !.type = TOML_FLOAT, !.scientific = TRUE]
                        ELSE more)

_Mytoml_ParseNumber(m, num_end) ==
    NumberLoop(m, num_end, << >>,
               [type |-> TOML_INT, scientific |-> FALSE, precision |-> 0])


-----------------------------------------------------------------------------
(* Unicode escapes: _Mytoml_ParseUnicode.                                  *)

\* a & b, a | b and a >> k on non-negative integers
RECURSIVE BitAnd(_, _)
BitAnd(a, b) ==
    IF a = 0 \/ b = 0 THEN 0
    ELSE (a % 2) * (b % 2) + 2 * BitAnd(a \div 2, b \div 2)

RECURSIVE BitOr(_, _)
BitOr(a, b) ==
    IF a = 0 THEN b
    ELSE IF b = 0 THEN a
    ELSE (IF a % 2 = 1 \/ b % 2 = 1 THEN 1 ELSE 0) + 2 * BitOr(a \div 2, b \div 2)

Shr(a, k) == a \div (2 ^ k)

\* The byte an integer becomes when it is stored in a char.
ToChar(x) == x % 256

HexUpper == <<"0", "1", "2", "3", "4", "5", "6", "7", "8", "9",
              "A", "B", "C", "D", "E", "F">>
HexLower == <<"0", "1", "2", "3", "4", "5", "6", "7", "8", "9",
              "a", "b", "c", "d", "e", "f">>

_Mytoml_IsHexDigit(c) ==
    c \in {"A", "B", "C", "D", "E", "F", "a", "b", "c", "d", "e", "f"}

\* The value of one hexadecimal digit.
HexValue(c) == (CHOOSE i \in 1..16 : HexUpper[i] = c \/ HexLower[i] = c) - 1

\* strtoul(code, &end, 16) on a run of hexadecimal digits
RECURSIVE StrToUl(_)
StrToUl(code) ==
    IF code = << >> THEN 0
    ELSE 16 * StrToUl(SubSeq(code, 1, Len(code) - 1)) + HexValue(code[Len(code)])

\* The branch of _Mytoml_ParseUnicode that encodes num into escaped[len].
UnicodeEncode(t, num, len) ==
    LET No == [tok |-> t, ret |-> 0, escaped |-> << >>]
    IN  IF (num >= 0 /\ num <= 55295) \/ (num >= 57344 /\ num <= 1114111)
        THEN IF num <= 0 /\ num <= 127
             THEN IF len < 1 THEN No
                  ELSE [tok |-> t, ret |-> 1,
                        escaped |-> <<ToChar(BitAnd(num, 127))>>]
             ELSE IF num >= 128 /\ num <= 2047
             THEN IF len < 2 THEN No
                  ELSE [tok |-> t, ret |-> 2,
                        escaped |-> <<ToChar(BitAnd(BitOr(192, Shr(num, 6)), 223)),
                                      ToChar(BitAnd(BitOr(128, num), 191))>>]
             ELSE IF num >= 2048 /\ num <= 65535
             THEN IF len < 3 THEN No
                  ELSE [tok |-> t, ret |-> 3,
                        escaped |-> <<ToChar(BitAnd(BitOr(224, Shr(num, 12)), 239)),
                                      ToChar(BitAnd(BitOr(128, Shr(num, 6)), 191)),
                                      ToChar(BitAnd(BitOr(128, num), 191))>>]
             ELSE IF len < 4 THEN No
                  ELSE [tok |-> t, ret |-> 4,
                        escaped |-> <<ToChar(BitAnd(BitOr(240, Shr(num, 18)), 247)),
                                      ToChar(BitAnd(BitOr(128, Shr(num, 12)), 191)),
                                      ToChar(BitAnd(BitOr(128, Shr(num, 6)), 191)),
                                      ToChar(BitAnd(BitOr(128, num), 191))>>]
        ELSE No

\* The loop of _Mytoml_ParseUnicode; code holds the digits read so far.
RECURSIVE UnicodeLoop(_, _, _)
UnicodeLoop(t, code, len) ==
    IF ~_Mytoml_TokenizerHasToken(t) THEN [tok |-> t, ret |-> 0, escaped |-> << >>]
    ELSE IF Len(code) > 8 THEN [tok |-> t, ret |-> 0, escaped |-> << >>]
    ELSE IF _Mytoml_IsHexDigit(t.token) \/ _Mytoml_IsDigit(t.token)
    THEN UnicodeLoop(_Mytoml_NextTokenizerToken(t), Append(code, t.token), len)
    ELSE IF Len(code) # 4 /\ Len(code) # 8
    THEN [tok |-> t, ret |-> 0, escaped |-> << >>]
    ELSE UnicodeEncode(t, StrToUl(code), len)

_Mytoml_ParseUnicode(t, len) == UnicodeLoop(t, << >>, len)

-----------------------------------------------------------------------------
(* Strings: _Mytoml_ParseEscape, _Mytoml_ParseBasicString and              *)
(* _Mytoml_ParseLiteralString.  `value` holds the characters stored so     *)
(* far, so idx is its length.                                              *)

\* The character a byte of an encoded escape is.  _Mytoml_ParseUnicode
\* writes the byte 0 or bytes above 127, which no other character of the
\* model is.
Byte(n) == IF n = 0 THEN NUL ELSE "x" \o ToString(n)

\* The characters strlen counts: value up to its first NUL.
RECURSIVE CString(_)
CString(value) ==
    IF value = << >> \/ Head(value) = NUL THEN << >>
    ELSE <<Head(value)>> \o CString(Tail(value))

_Mytoml_IsControlMulti(c) == c \in {NUL, BS, FF}

_Mytoml_ParseEscape(t, len) ==
    LET One(c) == [tok |-> _Mytoml_NextTokenizerToken(t), ret |-> 1,
                   escaped |-> <<c>>]
        Unicode(u) ==
            [tok |-> u.tok, ret |-> u.ret,
             escaped |-> [i \in 1..Len(u.escaped) |-> Byte(u.escaped[i])]]
    IN  IF len < 1 THEN [tok |-> t, ret |-> 0, escaped |-> << >>]
        ELSE IF t.token = "b" THEN One(BS)
        ELSE IF t.token = "t" THEN One(TAB)
        ELSE IF t.token = "n" THEN One(NL)
        ELSE IF t.token = "f" THEN One(FF)
        ELSE IF t.token = "r" THEN One(CR)
        ELSE IF t.token = "DQ" THEN One("DQ")
        ELSE IF t.token = "\\" THEN One("\\")
        ELSE IF t.token = "u" \/ t.token = "U"
        THEN Unicode(_Mytoml_ParseUnicode(_Mytoml_NextTokenizerToken(t), len))
        ELSE [tok |-> t, ret |-> 0, escaped |-> << >>]

\* The loop of _Mytoml_ParseBasicString after a backslash that no escape
\* follows (the line continuation of a multi-line string); `hit` says that
\* a newline was passed.
RECURSIVE ContinuationLoop(_, _)
ContinuationLoop(t, hit) ==
    LET Passed(nl) ==
            IF nl.ok THEN ContinuationLoop(_Mytoml_NextTokenizerToken(nl.tok), TRUE)
            ELSE ContinuationLoop(nl.tok, hit)
        Body(t0) ==
            Passed(_Mytoml_ParseNewline(
                       IF _Mytoml_IsWhitespace(t0.token)
                       THEN _Mytoml_ParseWhitespace(t0) ELSE t0))
        Tested(nl) == IF nl.ok THEN Body(nl.tok) ELSE [tok |-> nl.tok, hit |-> hit]
    IN  IF _Mytoml_IsWhitespace(t.token) THEN Body(t)
        ELSE Tested(_Mytoml_ParseNewline(t))

\* _Mytoml_ParseBasicString(tok, value, multi), after the opening quotes.
RECURSIVE BasicStringLoop(_, _, _)
BasicStringLoop(m, value, multi) ==
    LET Return(t, v) ==
            [m EXCEPT !.tok = t, !.val = _Mytoml_NewStringValue(CString(v))]
        Next(t, v) ==
            BasicStringLoop(WithTok(m, _Mytoml_NextTokenizerToken(t)), v, multi)
        \* the closing quotes of a multi-line string and up to two quotes
        \* before them
        Fifth(t, v) ==
            IF ~(Len(v) < MYTOML_MAX_STRING_LENGTH) THEN Fail(WithTok(m, t))
            ELSE IF _Mytoml_IsBasicStringStart(t.token)
            THEN Return(_Mytoml_NextTokenizerToken(t), Append(v, "DQ"))
            ELSE Return(t, v)
        Fourth(t) ==
            IF _Mytoml_IsBasicStringStart(t.token)
            THEN Fifth(_Mytoml_NextTokenizerToken(t), Append(value, "DQ"))
            ELSE Fifth(t, value)
        Third(a, b, t) ==
            IF _Mytoml_IsBasicStringStart(t.token)
               /\ _Mytoml_IsBasicStringStart(t.prev)
            THEN Fourth(_Mytoml_NextTokenizerToken(t))
            ELSE BasicStringLoop(WithTok(m, _Mytoml_TokenizerBacktrace(t, a + b - 1)),
                                 Append(value, "DQ"), multi)
        Second(a, t) == Third(a, NextReturns(t), _Mytoml_NextTokenizerToken(t))
        \* an escape sequence, after the backslash
        Continued(c) ==
            IF c.hit THEN BasicStringLoop(WithTok(m, c.tok), value, multi)
            ELSE Fail(WithTok(m, c.tok))
        Escape(e) ==
            IF multi /\ e.ret = 0 THEN Continued(ContinuationLoop(e.tok, FALSE))
            ELSE IF e.ret = 0 \/ ~(e.ret < 5) THEN Fail(WithTok(m, e.tok))
            ELSE IF ~(Len(value) + e.ret < MYTOML_MAX_STRING_LENGTH)
            THEN Fail(WithTok(m, e.tok))
            ELSE Next(_Mytoml_TokenizerBacktrace(e.tok, 1), value \o e.escaped)
        Char(t) ==
            IF _Mytoml_IsEscape(t.token)
            THEN Escape(_Mytoml_ParseEscape(_Mytoml_NextTokenizerToken(t), 5))
            ELSE IF ~multi /\ _Mytoml_Iscontrol(t.token) THEN Fail(WithTok(m, t))
            ELSE IF multi /\ _Mytoml_IsControlMulti(t.token) THEN Fail(WithTok(m, t))
            ELSE Next(t, Append(value, t.token))
        Again(nl) ==
            IF nl.ok /\ multi /\ Len(value) = 0 THEN Next(nl.tok, value)
            ELSE Char(nl.tok)
        Newline(nl) ==
            IF nl.ok /\ ~multi THEN Fail(WithTok(m, nl.tok))
            ELSE Again(_Mytoml_ParseNewline(nl.tok))
    IN  IF ~_Mytoml_TokenizerHasToken(m.tok) THEN Fail(m)
        ELSE IF ~(Len(value) < MYTOML_MAX_STRING_LENGTH) THEN Fail(m)
        ELSE IF _Mytoml_IsBasicStringStart(m.tok.token)
        THEN IF ~multi
             THEN Return(_Mytoml_NextTokenizerToken(m.tok), value)
             ELSE Second(NextReturns(m.tok), _Mytoml_NextTokenizerToken(m.tok))
        ELSE Newline(_Mytoml_ParseNewline(m.tok))

_Mytoml_ParseBasicString(m, multi) == BasicStringLoop(m, << >>, multi)

\* _Mytoml_ParseLiteralString(tok, value, multi), after the opening quotes.
RECURSIVE LiteralStringLoop(_, _, _)
LiteralStringLoop(m, value, multi) ==
    LET Return(t, v) ==
            [m EXCEPT !.tok = t, !.val = _Mytoml_NewStringValue(CString(v))]
        Next(t, v) ==
            LiteralStringLoop(WithTok(m, _Mytoml_NextTokenizerToken(t)), v, multi)
        Fifth(t, v) ==
            IF ~(Len(v) < MYTOML_MAX_STRING_LENGTH) THEN Fail(WithTok(m, t))
            ELSE IF _Mytoml_IsLiteralStringStart(t.token)
            THEN Return(_Mytoml_NextTokenizerToken(t), Append(v, "'"))
            ELSE Return(t, v)
        Fourth(t) ==
            IF _Mytoml_IsLiteralStringStart(t.token)
            THEN Fifth(_Mytoml_NextTokenizerToken(t), Append(value, "'"))
            ELSE Fifth(t, value)
        Third(a, b, t) ==
            IF _Mytoml_IsLiteralStringStart(t.token)
               /\ _Mytoml_IsLiteralStringStart(t.prev)
            THEN Fourth(_Mytoml_NextTokenizerToken(t))
            ELSE LiteralStringLoop(WithTok(m, _Mytoml_TokenizerBacktrace(t, a + b - 1)),
                                   Append(value, "'"), multi)
        Second(a, t) == Third(a, NextReturns(t), _Mytoml_NextTokenizerToken(t))
        Char(t) ==
            IF _Mytoml_IsControlLiteral(t.token) THEN Fail(WithTok(m, t))
            ELSE Next(t, Append(value, t.token))
        Again(nl) ==
            IF nl.ok /\ multi /\ Len(value) = 0 THEN Next(nl.tok, value)
            ELSE Char(nl.tok)
        Newline(nl) ==
            IF nl.ok /\ ~multi THEN Fail(WithTok(m, nl.tok))
            ELSE Again(_Mytoml_ParseNewline(nl.tok))
    IN  IF ~_Mytoml_TokenizerHasToken(m.tok) THEN Fail(m)
        ELSE IF ~(Len(value) < MYTOML_MAX_STRING_LENGTH) THEN Fail(m)
        ELSE IF _Mytoml_IsLiteralStringStart(m.tok.token)
        THEN IF ~multi
             THEN Return(_Mytoml_NextTokenizerToken(m.tok), value)
             ELSE Second(NextReturns(m.tok), _Mytoml_NextTokenizerToken(m.tok))
        ELSE Newline(_Mytoml_ParseNewline(m.tok))

_Mytoml_ParseLiteralString(m, multi) == LiteralStringLoop(m, << >>, multi)

\* The basic-string branch of _Mytoml_ParseValue, after the opening quote
\* was passed: "" followed by a blank or a newline is the empty string, """
\* opens a multi-line string.
BasicString(m) ==
    LET Empty(m2, nl) ==
            IF _Mytoml_IsWhitespace(m2.tok.token) THEN
                [m2 EXCEPT !.val = _Mytoml_NewStringValue(<< >>)]
            ELSE IF nl.ok
            THEN [m2 EXCEPT !.tok = nl.tok, !.val = _Mytoml_NewStringValue(<< >>)]
            ELSE Fail(WithTok(m2, nl.tok))
        Two(m2) ==
            IF _Mytoml_TokenizerHasToken(m2.tok)
               /\ _Mytoml_IsBasicStringStart(m2.tok.token)
            THEN _Mytoml_ParseBasicString(Advance(m2), TRUE)
            ELSE Empty(m2, _Mytoml_ParseNewline(m2.tok))
    IN  IF _Mytoml_TokenizerHasToken(m.tok) /\ _Mytoml_IsBasicStringStart(m.tok.token)
        THEN Two(Advance(m))
        ELSE _Mytoml_ParseBasicString(m, FALSE)

\* The literal-string branch of _Mytoml_ParseValue, after the opening quote.
LiteralString(m) ==
    LET Empty(m2, nl) ==
            IF _Mytoml_IsWhitespace(m2.tok.token) THEN
                [m2 EXCEPT !.val = _Mytoml_NewStringValue(<< >>)]
            ELSE IF nl.ok
            THEN [m2 EXCEPT !.tok = nl.tok, !.val = _Mytoml_NewStringValue(<< >>)]
            ELSE Fail(WithTok(m2, nl.tok))
        Two(m2) ==
            IF _Mytoml_TokenizerHasToken(m2.tok)
               /\ _Mytoml_IsLiteralStringStart(m2.tok.token)
            THEN _Mytoml_ParseLiteralString(Advance(m2), TRUE)
            ELSE Empty(m2, _Mytoml_ParseNewline(m2.tok))
    IN  IF _Mytoml_TokenizerHasToken(m.tok) /\ _Mytoml_IsLiteralStringStart(m.tok.token)
        THEN Two(Advance(m))
        ELSE _Mytoml_ParseLiteralString(m, FALSE)

\* The look-ahead of _Mytoml_ParseValue on a number start: two characters,
\* and two more when the first two are digits, then back by as many as were
\* read.  `datetime` says that the look-ahead found a time or a date.
LookAhead(t) ==
    LET Fourth(n, t4) ==
            [tok |-> _Mytoml_TokenizerBacktrace(t4, n),
             datetime |-> _Mytoml_TokenizerHasToken(t4) /\ t4.token = "-"]
        Third(n, t3) == Fourth(n + NextReturns(t3), _Mytoml_NextTokenizerToken(t3))
        Second(n, t2) ==
            IF _Mytoml_TokenizerHasToken(t2) /\ t2.token = ":"
            THEN [tok |-> _Mytoml_TokenizerBacktrace(t2, n), datetime |-> TRUE]
            ELSE IF ~_Mytoml_IsDigit(t2.prev) \/ ~_Mytoml_IsDigit(t2.token)
            THEN [tok |-> _Mytoml_TokenizerBacktrace(t2, n), datetime |-> FALSE]
            ELSE Third(n + NextReturns(t2), _Mytoml_NextTokenizerToken(t2))
        First(n, t1) == Second(n + NextReturns(t1), _Mytoml_NextTokenizerToken(t1))
    IN  First(NextReturns(t), _Mytoml_NextTokenizerToken(t))

\* 1.0 for true, 0.0 for false, 2.0 for anything else
_Mytoml_ParseBoolean(t) ==
    LET Fourth(t4) ==
            [tok |-> _Mytoml_NextTokenizerToken(t4),
             b |-> IF t4.token = "e" THEN 0 ELSE 2]
        Third(t3) ==
            IF t.token = "t"
            THEN [tok |-> _Mytoml_NextTokenizerToken(t3),
                  b |-> IF t3.prev_prev # "r" \/ t3.prev # "u" \/ t3.token # "e"
                        THEN 2 ELSE 1]
            ELSE IF t3.prev_prev # "a" \/ t3.prev # "l" \/ t3.token # "s"
            THEN [tok |-> _Mytoml_NextTokenizerToken(t3), b |-> 2]
            ELSE Fourth(_Mytoml_NextTokenizerToken(t3))
    IN  IF t.token = "t" \/ t.token = "f"
        THEN Third(_Mytoml_NextTokenizerToken(_Mytoml_NextTokenizerToken(
                       _Mytoml_NextTokenizerToken(t))))
        ELSE [tok |-> _Mytoml_NextTokenizerToken(t), b |-> 2]

\* An assignment that leaves the key of an inline table unlocked.
AssignWithoutLock(m, k, v) ==
    LET Lock(a) ==
            IF a.ret = NULL THEN Fail(a) ELSE [a EXCEPT !.ret = k]
    IN  IF v.type = TOML_INLINETABLE
        THEN Lock(AddSubKeys([m EXCEPT !.keys[k].type = TOML_KEY], k,
                             m.keys[v.data].subkeys, TRUE))
        ELSE [m EXCEPT !.keys[k].value = v, !.ret = k]

\* What follows a parsed key and value, in _Mytoml_ParseKeyValue and in
\* _Mytoml_ParseInlineTable alike: the keys of an inline table are added
\* under the key, unlocked as a KEY and locked again as a KEYLEAF; any other
\* value is stored in the key.
Assign(m, k, v) ==
    LET Lock(a) ==
            IF a.ret = NULL THEN Fail(a)
            ELSE [a EXCEPT !.keys[k].type = TOML_KEYLEAF, !.ret = k]
    IN  IF v.type = TOML_INLINETABLE
        THEN Lock(AddSubKeys([m EXCEPT !.keys[k].type = TOML_KEY], k,
                             m.keys[v.data].subkeys, TRUE))
        ELSE [m EXCEPT !.keys[k].value = v, !.ret = k]

\* _Mytoml_ParseValue and the loops of _Mytoml_ParseInlineTable and of
\* _Mytoml_ParseArray call each other; they are the three cases of one
\* recursive operator.  For "value", a holds num_end; for "table", a holds
\* the locals keys, sep and first of _Mytoml_ParseInlineTable; for "array",
\* a holds arr and the local sep of _Mytoml_ParseArray.
RECURSIVE ParseValueOrTable(_, _, _)

\* _Mytoml_ParseValue: the branches of one pass of its loop.
ValueNumber(m0, la, a) ==
    IF la.datetime THEN Skipped(WithTok(m0, la.tok))
    ELSE _Mytoml_ParseNumber(WithTok(m0, la.tok), a.num_end)

ValueTable(r) ==
    IF r.ret = NULL THEN Fail(r) ELSE _Mytoml_NewTableValue(r, r.ret)

ValueNewTable(n) ==
    ValueTable(ParseValueOrTable("table", n,
                                 [keys |-> n.ret, sep |-> TRUE, first |-> TRUE]))

ValueBoolean(m0, r) ==
    IF r.b = 1 \/ r.b = 0
    THEN [m0 EXCEPT !.tok = r.tok,
                    !.val = _Mytoml_NewNumberValue(
                                IF r.b = 1 THEN <<"1">> ELSE <<"0">>,
                                TOML_BOOL, 0, FALSE)]
    ELSE Fail(WithTok(m0, r.tok))

ValueInfNan(m0, r) ==
    IF r.f = << >> THEN Fail(WithTok(m0, r.tok))
    ELSE [m0 EXCEPT !.tok = r.tok,
                    !.val = _Mytoml_NewNumberValue(r.f, TOML_FLOAT, 0, FALSE)]

ValueCase(m0, ok, c, a) ==
    IF ok THEN Fail(m0)
    ELSE IF _Mytoml_IsWhitespace(c)
    THEN ParseValueOrTable("value",
                           WithTok(m0, _Mytoml_ParseWhitespace(m0.tok)), a)
    ELSE IF _Mytoml_IsBasicStringStart(c) THEN BasicString(Advance(m0))
    ELSE IF _Mytoml_IsLiteralStringStart(c) THEN LiteralString(Advance(m0))
    ELSE IF _Mytoml_IsNumberStart(c) THEN ValueNumber(m0, LookAhead(m0.tok), a)
    ELSE IF _Mytoml_IsArrayStart(c)
    THEN ParseValueOrTable("array", Advance(m0),
                           [arr |-> _Mytoml_NewArrayValue, sep |-> TRUE])
    ELSE IF _Mytoml_IsInlineTableStart(c)
    THEN ValueNewTable(_Mytoml_NewKey(Advance(m0), TOML_TABLE))
    ELSE IF c = "t" \/ c = "f" THEN ValueBoolean(m0, _Mytoml_ParseBoolean(m0.tok))
    ELSE IF c = "i" \/ c = "n"
    THEN ValueInfNan(m0, _Mytoml_ParseInfNan(m0.tok, FALSE))
    ELSE Fail(m0)

\* _Mytoml_ParseInlineTable: the branches of one pass of its loop.
TableAssigned(s, a) ==
    IF s.ret = NULL THEN Fail(_Mytoml_DeleteKey(s, a.keys))
    ELSE ParseValueOrTable("table",
                           WithTok(s, _Mytoml_ParseWhitespace(s.tok)),
                           [a EXCEPT !.sep = FALSE, !.first = FALSE])

TableValued(v, k, a) ==
    IF v.val.type = "NULL" THEN Fail(_Mytoml_DeleteKey(v, a.keys))
    ELSE TableAssigned(Assign(v, k, v.val), a)

TableKeyed(k, a) ==
    IF k.ret = NULL THEN Fail(_Mytoml_DeleteKey(k, a.keys))
    ELSE TableValued(ParseValueOrTable("value", k, [num_end |-> {",", SP, "}"}]),
                     k.ret, a)

TablePair(m0, ok, a) ==
    IF ok THEN Fail(m0)
    ELSE IF _Mytoml_IsWhitespace(m0.tok.token)
    THEN ParseValueOrTable("table",
                           WithTok(m0, _Mytoml_ParseWhitespace(m0.tok)), a)
    ELSE IF ~a.sep THEN Fail(_Mytoml_DeleteKey(m0, a.keys))
    ELSE TableKeyed(_Mytoml_ParseKey(m0, a.keys, TRUE), a)

\* _Mytoml_ParseArray: the branches of one pass of its loop.
ArrayElement(v, a) ==
    IF v.val.type = "NULL" THEN Fail(v)
    ELSE ParseValueOrTable("array", [v EXCEPT !.val = NoValue],
                           [arr |-> [a.arr EXCEPT !.arr = Append(@, v.val)],
                            sep |-> FALSE])

ArrayCommented(m0, c, a) ==
    IF c.ok THEN ParseValueOrTable("array", WithTok(m0, c.tok), a)
    ELSE Fail(WithTok(m0, c.tok))

ArrayItem(m0, ok, a) ==
    IF ok THEN ParseValueOrTable("array", Advance(m0), a)
    ELSE IF _Mytoml_IsWhitespace(m0.tok.token)
    THEN ParseValueOrTable("array",
                           WithTok(m0, _Mytoml_ParseWhitespace(m0.tok)), a)
    ELSE IF _Mytoml_IsCommentStart(m0.tok.token)
    THEN ArrayCommented(m0, _Mytoml_ParseComment(m0.tok), a)
    ELSE IF ~a.sep THEN Fail(m0)
    ELSE ArrayElement(ParseValueOrTable("value", m0,
                                        [num_end |-> {"#", ",", "]", SP, NL}]), a)

\* What the three loops do after their test for a newline.
AfterNewlineTest(what, m, a, nl) ==
    IF what = "value" THEN ValueCase(WithTok(m, nl.tok), nl.ok, nl.tok.token, a)
    ELSE IF what = "table" THEN TablePair(WithTok(m, nl.tok), nl.ok, a)
    ELSE ArrayItem(WithTok(m, nl.tok), nl.ok, a)

ParseValueOrTable(what, m, a) ==
    IF ~_Mytoml_TokenizerHasToken(m.tok) THEN Fail(m)
    ELSE IF what = "array" /\ ~(Len(a.arr.arr) < MYTOML_MAX_ARRAY_LENGTH)
    THEN Fail(m)
    ELSE IF what = "array" /\ _Mytoml_IsArrayEnd(m.tok.token)
    THEN [Advance(m) EXCEPT !.val = a.arr]
    ELSE IF what = "array" /\ _Mytoml_IsArraySep(m.tok.token)
    THEN IF a.sep THEN Fail(m)
         ELSE ParseValueOrTable("array", Advance(m), [a EXCEPT !.sep = TRUE])
    ELSE IF what = "table" /\ _Mytoml_IsInlineTableEnd(m.tok.token)
    THEN IF ~(~a.sep \/ a.first) THEN Fail(_Mytoml_DeleteKey(m, a.keys))
         ELSE [Advance(m) EXCEPT !.ret = a.keys]
    ELSE IF what = "table" /\ _Mytoml_IsInlineTableSep(m.tok.token)
    THEN IF a.sep THEN Fail(_Mytoml_DeleteKey(m, a.keys))
         ELSE ParseValueOrTable("table", Advance(m), [a EXCEPT !.sep = TRUE])
    ELSE AfterNewlineTest(what, m, a, _Mytoml_ParseNewline(m.tok))

_Mytoml_ParseValue(m, num_end) ==
    ParseValueOrTable("value", m, [num_end |-> num_end])

_Mytoml_ParseArray(m, arr) ==
    ParseValueOrTable("array", m, [arr |-> arr, sep |-> TRUE])

_Mytoml_ParseInlineTable(m) ==
    LET Loop(n) == ParseValueOrTable("table", n,
                                     [keys |-> n.ret, sep |-> TRUE, first |-> TRUE])
    IN  Loop(_Mytoml_NewKey(m, TOML_TABLE))

-----------------------------------------------------------------------------
(* Statements and the load loop.                                           *)

\* table->value->arr[i] = v
ArrPut(arr, i, v) ==
    [k \in 1..(IF i + 1 > Len(arr) THEN i + 1 ELSE Len(arr)) |->
        IF k = i + 1 THEN v ELSE IF k <= Len(arr) THEN arr[k] ELSE NoValue]

\* The array-of-tables header after its path is parsed: the array value is
\* made on first use, the idx cursor is checked against the cap (an unsigned
\* comparison: both sides are taken modulo SizeMod) and a new entry is stored
\* at the pre-incremented idx.
OpenEntry(m, table) ==
    LET idx == m.keys[table].idx
        idx1 == (idx + 1) % SizeMod
        Store(e) ==
            [e EXCEPT !.keys[table].idx = idx1,
                      !.keys[table].value.arr = ArrPut(@, idx1, e.val),
                      !.val = NoValue, !.ret = table]
        Entry(k) == Store(_Mytoml_NewTableValue(k, k.ret))
        Check(m1) ==
            IF ~(idx < (MYTOML_MAX_ARRAY_LENGTH - 1) % SizeMod)
            THEN [Fail(m1) EXCEPT !.branch = "arraytable-overflow"]
            ELSE Entry(_Mytoml_NewKey(m1, TOML_TABLE))
    IN  Check(IF m.keys[table].value.type = "NULL"
              THEN [m EXCEPT !.keys[table].value = _Mytoml_NewArrayValue]
              ELSE m)

\* The branches of _Mytoml_ParseKeyValue.
KeyValueComment(m, key, r) ==
    [m EXCEPT !.tok = r.tok, !.branch = "comment",
              !.ret = IF r.ok THEN key ELSE NULL]

KeyValueArrayTable(p) == IF p.ret = NULL THEN p ELSE OpenEntry(p, p.ret)

KeyValueHeader(m1, root_) ==
    IF _Mytoml_IsTableStart(m1.tok.token)
    THEN KeyValueArrayTable([_Mytoml_ParseArrayTable(Advance(m1), root_, TRUE)
                                EXCEPT !.branch = "arraytable"])
    ELSE [_Mytoml_ParseTable(m1, root_, TRUE) EXCEPT !.branch = "table"]

KeyValueAssigned(s, key) ==
    IF s.ret = NULL THEN Fail(s)
    ELSE [s EXCEPT !.tok = _Mytoml_ParseWhitespace(s.tok), !.ret = key]

KeyValueValued(v, subkey, key) ==
    IF v.val.type = "NULL" THEN Fail(v)
    ELSE KeyValueAssigned(Assign(v, subkey, v.val), key)

KeyValueKeyed(k, key) ==
    IF k.ret = NULL THEN k
    ELSE KeyValueValued(_Mytoml_ParseValue([k EXCEPT !.subkey = k.ret],
                                           {"#", SP, NL}), k.ret, key)

\* The branches after the newline test, with a newline branch that returns
\* the key without taking the token after the newline.
KeyValueNewlineKept(m, key, root_, t, ok) ==
    IF ok
    THEN [m EXCEPT !.tok = t, !.branch = "newline", !.ret = key]
    ELSE IF _Mytoml_IsTableStart(t.token)
    THEN KeyValueHeader(Advance(WithTok(m, t)), root_)
    ELSE IF t.prev = NUL \/ _Mytoml_IsNewline(t.prev)
            \/ (_Mytoml_IsWhitespace(t.prev) /\ t.newline)
    THEN KeyValueKeyed([_Mytoml_ParseKey(WithTok(m, t), key, TRUE)
                           EXCEPT !.branch = "keyvalue"], key)
    ELSE [Fail(WithTok(m, t)) EXCEPT !.branch = "unhandled"]

KeyValueAfterNewline(m, key, root_, t, ok) ==
    IF ok
    THEN [m EXCEPT !.tok = _Mytoml_NextTokenizerToken(t),
                   !.branch = "newline", !.ret = key]
    ELSE IF _Mytoml_IsTableStart(t.token)
    THEN KeyValueHeader(Advance(WithTok(m, t)), root_)
    ELSE IF t.prev = NUL \/ _Mytoml_IsNewline(t.prev)
            \/ (_Mytoml_IsWhitespace(t.prev) /\ t.newline)
    THEN KeyValueKeyed([_Mytoml_ParseKey(WithTok(m, t), key, TRUE)
                           EXCEPT !.branch = "keyvalue"], key)
    ELSE [Fail(WithTok(m, t)) EXCEPT !.branch = "unhandled"]

KeyValueNewline(m, key, root_, nl) == KeyValueAfterNewline(m, key, root_, nl.tok, nl.ok)

_Mytoml_ParseKeyValue(m, key, root_) ==
    IF _Mytoml_IsCommentStart(m.tok.token)
    THEN KeyValueComment(m, key, _Mytoml_ParseComment(m.tok))
    ELSE IF _Mytoml_IsWhitespace(m.tok.token)
    THEN [m EXCEPT !.tok = _Mytoml_ParseWhitespace(m.tok),
                   !.branch = "whitespace", !.ret = key]
    ELSE KeyValueNewline(m, key, root_, _Mytoml_ParseNewline(m.tok))

-----------------------------------------------------------------------------
(* The values of the variables a specification does not use.              *)

\* The sequences of up to n elements of S.
RECURSIVE SeqsUpTo(_, _)
SeqsUpTo(S, n) ==
    IF n = 0 THEN {<< >>}
    ELSE LET shorter == SeqsUpTo(S, n - 1)
         IN  shorter \cup {Append(s, c) : s \in shorter, c \in S}

NoStmt ==
    [branch |-> "none", ret |-> NULL, key |-> NULL, cursor |-> 0, subkey |-> NULL,
     vtype |-> "NULL", locked |-> {}, n |-> 0, bad |-> 0]
NoFault == [ub |-> FALSE, skipped |-> FALSE]

IdleTok ==
    /\ tok = _Mytoml_NewTokenizer(<<EOFc>>, NUL, 0)
    /\ seen = << >>
    /\ op = [name |-> "new", count |-> 0, from |-> 0, ok |-> FALSE]

IdleKinds ==
    /\ stype = NoKinds /\ existing = NoKinds /\ current = NoKinds
    /\ verdict = NoKinds /\ redefs = 0

IdleLoad ==
    /\ keys = << >> /\ freed = {} /\ calls = << >>
    /\ curkey = NULL /\ status = "none" /\ toml = NULL
    /\ stmt = NoStmt /\ fault = NoFault

NoCall == [name |-> "none"]

IdleCall == arg = NoCall /\ result = NoCall

-----------------------------------------------------------------------------
(* Specification SpecKinds: one key, created with any kind, redefined by   *)
(* keys of any kind, any number of times up to MaxRedefs.                  *)

KindsInit ==
    /\ stype \in TomlKeyType
    /\ existing = NoKinds /\ current = NoKinds /\ verdict = NoKinds
    /\ redefs = 0
    /\ IdleTok
    /\ IdleLoad
    /\ IdleCall

KindsRedefine ==
    /\ redefs < MaxRedefs
    /\ \E subtype \in TomlKeyType :
          /\ existing' = stype
          /\ current' = subtype
          /\ verdict' = IF Redefine(stype, subtype).ok THEN Allowed ELSE Denied
          /\ stype' = Redefine(stype, subtype).type
    /\ redefs' = redefs + 1
    /\ UNCHANGED <<tokVars, loadVars, callVars>>

SpecKinds == KindsInit /\ [][KindsRedefine]_vars

\* The redefinition matrix as the specification gives it (section 3): the
\* cells that say yes or no; the cells left open are not in the domain.
MatrixYes ==
    {<<TOML_KEY, TOML_KEY>>, <<TOML_KEY, TOML_TABLE>>,
     <<TOML_TABLE, TOML_KEY>>, <<TOML_TABLE, TOML_TABLE>>,
     <<TOML_TABLE, TOML_TABLELEAF>>,
     <<TOML_TABLELEAF, TOML_KEY>>, <<TOML_TABLELEAF, TOML_TABLE>>,
     <<TOML_ARRAYTABLE, TOML_TABLE>>, <<TOML_ARRAYTABLE, TOML_ARRAYTABLE>>}

MatrixNo ==
    {<<TOML_KEYLEAF, k>> : k \in TomlKeyType} \cup {<<TOML_TABLELEAF, TOML_TABLELEAF>>}

\* The two cells where the code answers no and the matrix says yes.
DottedIntoTable == {<<TOML_TABLE, TOML_KEY>>, <<TOML_TABLELEAF, TOML_KEY>>}

-----------------------------------------------------------------------------
(* Specification SpecTree: _Mytoml_AddSubKey called on a tree that starts  *)
(* as a lone root, with new keys of every kind and of a few identifiers,   *)
(* under every key of the tree.                                            *)

TreeIds == {<<"a">>, <<"b">>}

\* root = _Mytoml_NewKey(TOML_TABLE); memcpy(root->id, "root", ...)
NewRoot(t) ==
    LET m == _Mytoml_NewKey(Machine(t, << >>), TOML_TABLE)
    IN  [m EXCEPT !.keys[m.ret].id = <<"r", "o", "o", "t">>]

\* The pointer tomlLoadFile holds in `root`: the first key allocated.
root == NewRoot(_Mytoml_NewTokenizer(<<EOFc>>, NUL, 0)).ret

\* The keys a walk from the root meets.
Attached(ks) == {root} \cup UNION {ks[p].subkeys : p \in 1..Len(ks)}

TreeInit ==
    /\ IdleTok
    /\ IdleKinds
    /\ IdleCall
    /\ keys = NewRoot(tok).keys
    /\ freed = {} /\ calls = << >>
    /\ curkey = NULL /\ status = "none" /\ toml = NULL
    /\ stmt = NoStmt /\ fault = NoFault

\* subkey = _Mytoml_NewKey(type) with the identifier id;
\* _Mytoml_AddSubKey(parent, subkey).  A parent of kind ARRAYTABLE that has
\* no entry is left out: no caller passes one.
TreeAdd ==
    /\ Len(keys) <= MaxAdds
    /\ \E parent \in Attached(keys), id \in TreeIds, type \in TomlKeyType :
          LET n == _Mytoml_NewKey(Machine(tok, keys), type)
              m == [n EXCEPT !.keys[n.ret].id = id]
              r == _Mytoml_AddSubKey(m, parent, m.ret)
          IN  /\ ~r.ub
              /\ keys' = r.keys
              /\ calls' = calls \o r.calls
    /\ UNCHANGED <<tokVars, kindVars, callVars, freed, curkey, status, toml, stmt, fault>>

SpecTree == TreeInit /\ [][TreeAdd]_vars

\* C2: every call of _Mytoml_AddSubKey that finds a child of kind KEYLEAF
\* with the new key's identifier returns NULL, whatever the new key's kind,
\* and leaves that child's kind, value, children and idx as they were.
C2_KeyLeafNeverRedefined ==
    \A i \in 1..Len(calls) :
        calls[i].stype = TOML_KEYLEAF =>
            /\ calls[i].ret = NULL
            /\ calls[i].after = calls[i].before

\* A KEYLEAF that holds a child has refused a TABLE and, later, a KEYLEAF.
C2_Witness ==
    \E i, j \in 1..Len(calls) :
        /\ i < j
        /\ calls[i].s = calls[j].s
        /\ calls[i].stype = TOML_KEYLEAF /\ calls[i].type = TOML_TABLE
        /\ calls[j].stype = TOML_KEYLEAF /\ calls[j].type = TOML_KEYLEAF
        /\ calls[j].ret = NULL
        /\ calls[j].before[1].subkeys # {}

\* Call i defines the key p as a TABLELEAF: it adds a TABLELEAF and returns p
\* (a new key, or an existing TABLE turned into a TABLELEAF).
DefinesTableLeaf(i, p) ==
    calls[i].type = TOML_TABLELEAF /\ calls[i].ret = p /\ p # NULL

\* C3: a TABLELEAF added onto an existing TABLE is let in and turns that node
\* into a TABLELEAF; once a node has been defined as a TABLELEAF, every later
\* TABLELEAF with its identifier under its parent is refused, whatever was
\* added in between.
C3_TableLeafOnce ==
    /\ \A i \in 1..Len(calls) :
          (calls[i].stype = TOML_TABLE /\ calls[i].type = TOML_TABLELEAF) =>
              /\ calls[i].ret = calls[i].s
              /\ calls[i].after[1].type = TOML_TABLELEAF
    /\ \A i, j \in 1..Len(calls) :
          (i < j /\ calls[j].s # NULL /\ DefinesTableLeaf(i, calls[j].s)
                 /\ calls[j].type = TOML_TABLELEAF) =>
              calls[j].ret = NULL

\* A TABLE was turned into a TABLELEAF, then took a TABLE with its identifier,
\* then refused a second TABLELEAF.
C3_Witness ==
    \E i, j, k \in 1..Len(calls) :
        /\ i < j /\ j < k
        /\ calls[i].stype = TOML_TABLE /\ DefinesTableLeaf(i, calls[i].s)
        /\ calls[j].s = calls[i].s /\ calls[j].type = TOML_TABLE
        /\ calls[j].ret = calls[i].s
        /\ calls[k].s = calls[i].s /\ calls[k].type = TOML_TABLELEAF
        /\ calls[k].ret = NULL

-----------------------------------------------------------------------------
(* Specification SpecLoad: tomlLoadFile on every document of up to         *)
(* MaxLines lines drawn from Lines, and on the documents of Scenarios.     *)
(* One step is one turn of the loop: one call of _Mytoml_ParseKeyValue.    *)

Lines ==
    {<<"[", "a", "]">>,
     <<"[", "a", ".", "b", "]">>,
     <<"[", "a", ".", "c", "]">>,
     <<"[", "[", "a", "]", "]">>,
     <<"x", "=", "1">>,
     <<"a", "=", "2">>,
     <<"a", ".", "c", "=", "1">>,
     <<"a", "=", "{", "}">>,
     <<"a", "=", "{", "b", "=", "1", "}">>,
     <<SP, SP, "x", "=", "1">>,
     <<SP, "[", "a", "]">>,
     <<"#", "c">>,
     << >>,
     <<SP>>}

\* [a.b] makes a a Table, [a] defines it, [a.c] extends it, [a] again.
TableLeafDoc ==
    << <<"[", "a", ".", "b", "]">>, <<"[", "a", "]">>,
       <<"[", "a", ".", "c", "]">>, <<"[", "a", "]">> >>

\* Two entries of the array of tables t.
TwoEntriesDoc ==
    << <<"[", "[", "t", "]", "]">>, <<"x", "=", "1">>,
       <<"[", "[", "t", "]", "]">>, <<"x", "=", "2">> >>

\* The same sub-key in two entries, and a table under the first entry.
EntryTablesDoc ==
    << <<"[", "[", "t", "]", "]">>, <<"x", "=", "1">>, <<"[", "t", ".", "s", "]">>,
       <<"[", "[", "t", "]", "]">>, <<"x", "=", "1">> >>

Scenarios == {TableLeafDoc, TwoEntriesDoc, EntryTablesDoc}

\* The bytes of a file whose lines are ls, each ended by a newline.
RECURSIVE FileOf(_)
FileOf(ls) == IF ls = << >> THEN << >> ELSE Head(ls) \o <<NL>> \o FileOf(Tail(ls))

Docs == SeqsUpTo(Lines, MaxLines) \cup Scenarios

LoadInit ==
    /\ \E doc \in Docs :
          tok = _Mytoml_NextTokenizerToken(
                    _Mytoml_NewTokenizer(_Mytoml_TokenizerLoadInput(FileOf(doc)),
                                         NUL, 0))
    /\ seen = << >>
    /\ op = [name |-> "new", count |-> 0, from |-> 0, ok |-> FALSE]
    /\ IdleKinds
    /\ IdleCall
    /\ keys = NewRoot(tok).keys
    /\ freed = {} /\ calls = << >>
    /\ curkey = root
    /\ status = "parsing"
    /\ toml = NULL
    /\ stmt = NoStmt
    /\ fault = NoFault

\* A load loop that goes on after a statement failed.
LoadLoopIgnoringFailure(r, key) ==
    [key |-> IF r.ret = NULL THEN key ELSE r.ret, status |-> "parsing",
     toml |-> NULL, freed |-> r.freed]

\* The body of the loop after _Mytoml_ParseKeyValue returned r: on failure
\* the tree is handed to tomlFree and NULL is returned.
LoadLoop(r, key) ==
    IF r.ret = NULL
    THEN [key |-> NULL, status |-> "returned", toml |-> NULL,
          freed |-> r.freed \cup {root}]
    ELSE [key |-> r.ret, status |-> "parsing", toml |-> NULL, freed |-> r.freed]

LoadStep ==
    LET Loop(r, l) ==
            /\ tok' = r.tok
            /\ keys' = r.keys
            /\ calls' = r.calls
            /\ freed' = l.freed
            /\ curkey' = l.key
            /\ status' = l.status
            /\ toml' = l.toml
            /\ stmt' = [branch |-> r.branch, ret |-> r.ret, key |-> curkey,
                        cursor |-> tok.cursor, subkey |-> r.subkey,
                        vtype |-> r.val.type,
                        locked |-> stmt.locked \cup
                                   (IF r.ret # NULL /\ r.val.type = TOML_INLINETABLE
                                    THEN {r.subkey} ELSE {}),
                        n |-> stmt.n + 1,
                        bad |-> stmt.bad + (IF r.ret = NULL THEN 1 ELSE 0)]
            /\ fault' = [ub |-> fault.ub \/ r.ub \/ r.tok.ub,
                         skipped |-> fault.skipped \/ r.skipped]
        Parsed(r) == Loop(r, LoadLoop(r, curkey))
    IN  /\ status = "parsing"
        /\ _Mytoml_TokenizerHasToken(tok)
        /\ Parsed(_Mytoml_ParseKeyValue([Machine(tok, keys) EXCEPT !.freed = freed],
                                        curkey, root))
        /\ UNCHANGED <<seen, op, kindVars, callVars>>

\* The loop ends when the tokenizer has no token: the root is returned.
LoadReturn ==
    /\ status = "parsing"
    /\ ~_Mytoml_TokenizerHasToken(tok)
    /\ status' = "returned"
    /\ toml' = root
    /\ UNCHANGED <<tok, seen, op, kindVars, callVars, keys, freed, calls, curkey, stmt, fault>>

LoadNext == LoadStep \/ LoadReturn

SpecLoad == LoadInit /\ [][LoadNext]_vars

\* The document being loaded is doc.
Loaded(doc) == tok.stream = _Mytoml_TokenizerLoadInput(FileOf(doc))

\* The children of key k that are named id.
Named(k, id) == {s \in keys[k].subkeys : keys[s].id = id}

\* The i-th entry of the array of tables t holds the key id with the number
\* written num.
EntryHolds(t, i, id, num) ==
    /\ i <= Len(keys[t].value.arr)
    /\ keys[t].value.arr[i].type = TOML_INLINETABLE
    /\ \E x \in Named(keys[t].value.arr[i].data, id) :
          keys[x].type = TOML_KEYLEAF /\ keys[x].value.num = num

\* C4: when a statement fails to parse, the load returns a null tree: the
\* failing _Mytoml_ParseKeyValue is the last statement processed (there is
\* never a second failure, and the loop has left "parsing"), and the tree
\* built so far is released and not returned.
C4_FailureReturnsNull ==
    /\ stmt.bad <= 1
    /\ (stmt.bad > 0) =>
          /\ stmt.ret = NULL
          /\ status = "returned"
          /\ toml = NULL
          /\ curkey = NULL
          /\ root \in freed
    /\ (status = "returned" /\ toml # NULL) => (toml = root /\ stmt.bad = 0)

\* C4's case: a statement failed after two statements were accepted and
\* built keys, with input still left after the failure.
C4_Witness ==
    /\ stmt.bad = 1 /\ stmt.n >= 3
    /\ Len(keys) > 2
    /\ _Mytoml_TokenizerHasToken(tok)
    /\ status = "returned" /\ toml = NULL

\* C5 (as stated): no [[t]] header fails the bound check on the idx cursor,
\* and the document [[t]], x=1, [[t]], x=2 is accepted with t an ArrayTable
\* of exactly two entries, the first holding x=1 and the second x=2.
C5_ArrayTableEntries ==
    /\ stmt.branch # "arraytable-overflow"
    /\ (Loaded(TwoEntriesDoc) /\ status = "returned") =>
          /\ toml = root
          /\ \E t \in Named(root, <<"t">>) :
                /\ keys[t].type = TOML_ARRAYTABLE
                /\ keys[t].idx = 1
                /\ Len(keys[t].value.arr) = 2
                /\ EntryHolds(t, 1, <<"x">>, <<"1">>)
                /\ EntryHolds(t, 2, <<"x">>, <<"2">>)

\* C6 (as stated): children added under an ArrayTable go to the entry opened
\* last and never to the ArrayTable key's own child map or to an earlier
\* entry: the document [[t]], x=1, [t.s], [[t]], x=1 is accepted, x is
\* defined once in each entry without a redefinition error, and s is a
\* table of the first entry only.
C6_ChildrenGoToLastEntry ==
    /\ \A i \in 1..Len(calls) :
          (calls[i].type # TOML_ARRAYTABLE /\ calls[i].ret # NULL
           /\ keys[calls[i].key].type = TOML_ARRAYTABLE) =>
              /\ calls[i].ret \notin keys[calls[i].key].subkeys
              /\ keys[calls[i].key].idx < Len(keys[calls[i].key].value.arr)
              /\ calls[i].ret \in
                    keys[keys[calls[i].key].value.arr[keys[calls[i].key].idx + 1].data].subkeys
    /\ (Loaded(EntryTablesDoc) /\ status = "returned") =>
          /\ toml = root
          /\ \E t \in Named(root, <<"t">>) :
                /\ keys[t].type = TOML_ARRAYTABLE
                /\ keys[t].subkeys = {}
                /\ EntryHolds(t, 1, <<"x">>, <<"1">>)
                /\ EntryHolds(t, 2, <<"x">>, <<"1">>)
                /\ Named(keys[t].value.arr[1].data, <<"s">>) # {}
                /\ Named(keys[t].value.arr[2].data, <<"s">>) = {}

\* C7: a key=value statement that assigns an inline table leaves the key a
\* KeyLeaf, and every later statement in which _Mytoml_AddSubKey meets a key
\* that was assigned an inline table (a dotted assignment through it, a
\* header naming it or a table under it, a second assignment) is rejected
\* and ends the load with a null tree.
C7_InlineTableIsLocked ==
    /\ (stmt.branch = "keyvalue" /\ stmt.ret # NULL
        /\ stmt.vtype = TOML_INLINETABLE) =>
          /\ stmt.subkey \in stmt.locked
          /\ keys[stmt.subkey].type = TOML_KEYLEAF
    /\ \A k \in stmt.locked : keys[k].type = TOML_KEYLEAF
    /\ \A i \in 1..Len(calls) :
          calls[i].s \in stmt.locked =>
              /\ calls[i].ret = NULL
              /\ calls[i].after = calls[i].before
              /\ stmt.ret = NULL
              /\ status = "returned" /\ toml = NULL

\* C7's case: a key that holds a non-empty inline table was met by the key
\* of a dotted assignment, and the statement was rejected.
C7_Witness ==
    \E i \in 1..Len(calls) :
        /\ calls[i].s \in stmt.locked
        /\ keys[calls[i].s].subkeys # {}
        /\ calls[i].type = TOML_KEY
        /\ stmt.branch = "keyvalue"
        /\ stmt.ret = NULL

\* The position (0-based) of the first character of the line that holds
\* position c of the stream.
LineStart(c) ==
    LET ends == {j \in 0..(c - 1) : StreamAt(tok, j) = NL}
    IN  IF ends = {} THEN 0 ELSE (CHOOSE j \in ends : \A k \in ends : k <= j) + 1

\* Only spaces and tabs lie between the start of its line and position c.
FirstOnLine(c) == \A j \in LineStart(c)..(c - 1) : _Mytoml_IsWhitespace(StreamAt(tok, j))

\* C9 (as stated): on every line, the first included, a statement that
\* starts at the first non-whitespace character of its line is dispatched on
\* that character: # is a comment, [ a header, and anything else but the end
\* of the line is parsed as a dotted-key assignment.
C9_DispatchOnFirstCharacter ==
    (stmt.n > 0 /\ FirstOnLine(stmt.cursor - 1)) =>
        LET c == StreamAt(tok, stmt.cursor - 1)
        IN  IF _Mytoml_IsCommentStart(c) THEN stmt.branch = "comment"
            ELSE IF _Mytoml_IsTableStart(c)
            THEN stmt.branch \in {"table", "arraytable", "arraytable-overflow"}
            ELSE IF _Mytoml_IsWhitespace(c) THEN stmt.branch = "whitespace"
            ELSE IF _Mytoml_IsNewline(c) \/ _Mytoml_IsReturn(c)
            THEN stmt.branch = "newline"
            ELSE stmt.branch = "keyvalue"

\* The path of the header of the last statement was resolved: every
\* _Mytoml_AddSubKey call of the statement returned a key.
HeaderResolved ==
    /\ stmt.branch \in {"table", "arraytable", "arraytable-overflow"}
    /\ calls # << >>
    /\ \A i \in 1..Len(calls) : calls[i].ret # NULL

\* C10 (as stated): the current key starts as the root; an accepted comment,
\* blank or whitespace-only line or key=value assignment leaves it as it
\* was; a [table] or [[array-table]] header whose path resolves is resolved
\* from the root and rebinds the current key to the key it names; the first
\* key of an assignment is added under the current key.
C10_CurrentKey ==
    /\ (stmt.n = 0) => curkey = root
    /\ (stmt.branch \in {"comment", "whitespace", "newline", "keyvalue"}
        /\ stmt.ret # NULL) => curkey = stmt.key
    /\ HeaderResolved =>
          /\ calls[1].key = root
          /\ curkey = calls[Len(calls)].ret
          /\ keys[curkey].id = calls[Len(calls)].id
    /\ (stmt.branch = "keyvalue" /\ calls # << >>) => calls[1].key = stmt.key

-----------------------------------------------------------------------------
(* Specification SpecTok: a tokenizer over every short buffer, advanced    *)
(* and backtracked in every order.                                         *)

TokChars == {"a", "b", SP, NL}

\* What the claims about the tokenizer compare: the three characters, the
\* cursor and the position.
Held(t) == [token |-> t.token, prev |-> t.prev, prev_prev |-> t.prev_prev,
            cursor |-> t.cursor, line |-> t.line, col |-> t.col]

TokInit ==
    /\ \E bytes \in SeqsUpTo(TokChars, MaxBuf), wi \in {0, 1} :
          tok = _Mytoml_NewTokenizer(_Mytoml_TokenizerLoadInput(bytes), NUL, wi)
    /\ seen = << >>
    /\ op = [name |-> "new", count |-> 0, from |-> 0, ok |-> FALSE]
    /\ IdleKinds
    /\ IdleCall
    /\ IdleLoad

Remember(t) == IF t.cursor > Len(seen) THEN Append(seen, Held(t)) ELSE seen

TokNext ==
    /\ tok' = _Mytoml_NextTokenizerToken(tok)
    /\ seen' = Remember(tok')
    /\ op' = [name |-> "next", count |-> NextReturns(tok), from |-> tok.cursor,
              ok |-> TRUE]
    /\ UNCHANGED <<kindVars, callVars, loadVars>>

TokBacktrace ==
    \E count \in 0..MaxBack :
        /\ tok' = _Mytoml_TokenizerBacktrace(tok, count)
        /\ seen' = seen
        /\ op' = [name |-> "backtrace", count |-> count, from |-> tok.cursor,
                  ok |-> BacktraceSucceeds(tok, count)]
        /\ UNCHANGED <<kindVars, callVars, loadVars>>

TokStep == TokNext \/ TokBacktrace

SpecTok == TokInit /\ [][TokStep]_vars

\* C8: after a successful backtrack by n the tokenizer holds the current,
\* previous and previous-previous characters, and the cursor, it held when it
\* was first at the position n characters earlier.
C8_BacktraceRestoresLookBack ==
    (op.name = "backtrace" /\ op.ok) =>
        LET there == seen[op.from - op.count]
        IN  /\ tok.cursor = there.cursor
            /\ tok.token = there.token
            /\ tok.prev = there.prev
            /\ tok.prev_prev = there.prev_prev

-----------------------------------------------------------------------------
(* Specification SpecUnicode: _Mytoml_ParseUnicode on the escapes \uXXXX   *)
(* and \UXXXXXXXX of every scalar of UnicodeScalars, written in upper and  *)
(* in lower case and followed by the closing quote of the string.          *)

MaxDense == 256     \* every scalar up to this one is an input of SpecUnicode

\* The scalars at both sides of every boundary of the encoding.
UnicodeEdges ==
    {127, 128, 2047, 2048, 55295, 55296, 57343, 57344, 65535, 65536,
     1114111, 1114112}

UnicodeScalars == 0..MaxDense \cup UnicodeEdges \cup {8364, 128512}

\* n written with the given number of hexadecimal digits
RECURSIVE ToHex(_, _, _)
ToHex(n, digits, table) ==
    IF digits = 0 THEN << >>
    ELSE Append(ToHex(n \div 16, digits - 1, table), table[(n % 16) + 1])

UnicodeInit ==
    /\ \E n \in UnicodeScalars, digits \in {4, 8}, table \in {HexUpper, HexLower} :
          /\ (digits = 4) => (n <= 65535)
          /\ arg = [name |-> "unicode", scalar |-> n,
                    code |-> ToHex(n, digits, table), len |-> 5]
          /\ tok = _Mytoml_NextTokenizerToken(_Mytoml_NewTokenizer(
                       _Mytoml_TokenizerLoadInput(ToHex(n, digits, table) \o <<"DQ">>),
                       NUL, 0))
    /\ result = NoCall
    /\ seen = << >>
    /\ op = [name |-> "new", count |-> 0, from |-> 0, ok |-> FALSE]
    /\ IdleKinds
    /\ IdleLoad

UnicodeParse ==
    LET Returned(r) ==
            /\ tok' = r.tok
            /\ result' = [name |-> "unicode", ret |-> r.ret, escaped |-> r.escaped]
    IN  /\ arg.name = "unicode"
        /\ result = NoCall
        /\ Returned(_Mytoml_ParseUnicode(tok, arg.len))
        /\ UNCHANGED <<arg, seen, op, kindVars, loadVars>>

SpecUnicode == UnicodeInit /\ [][UnicodeParse]_vars

\* The shortest-form UTF-8 encoding of the scalar n.
Utf8(n) ==
    IF n <= 127 THEN <<n>>
    ELSE IF n <= 2047 THEN <<192 + (n \div 64), 128 + (n % 64)>>
    ELSE IF n <= 65535
    THEN <<224 + (n \div 4096), 128 + ((n \div 64) % 64), 128 + (n % 64)>>
    ELSE <<240 + (n \div 262144), 128 + ((n \div 4096) % 64),
           128 + ((n \div 64) % 64), 128 + (n % 64)>>

IsScalar(n) == (n >= 0 /\ n <= 55295) \/ (n >= 57344 /\ n <= 1114111)

\* C11 (as stated): for every escape of a scalar n in [0, 0xD7FF] or
\* [0xE000, 0x10FFFF], _Mytoml_ParseUnicode returns the length of the
\* shortest-form UTF-8 encoding of n and writes exactly its bytes; every
\* other number is rejected (0 is returned).
C11_ShortestFormUtf8 ==
    (result.name = "unicode") =>
        IF IsScalar(arg.scalar)
        THEN /\ result.ret = Len(Utf8(arg.scalar))
             /\ result.escaped = Utf8(arg.scalar)
        ELSE result.ret = 0

-----------------------------------------------------------------------------
(* Serialization: tomlKeyDumpBuffer and tomlValueDumpBuffer.               *)
(* The buffer is the sequence of the characters appended to it.  A number  *)
(* value holds the characters strtod converted; the double they denote is  *)
(* printed back from them: the literals of the specifications are short    *)
(* enough for the nearest double to print the same decimal digits.         *)

DQ == "DQ"          \* '"'

\* {"type": "<tag>", "value": 
TypedValue(tag) ==
    <<"{", DQ, "t", "y", "p", "e", DQ, ":", " ", DQ>> \o tag
        \o <<DQ, ",", " ", DQ, "v", "a", "l", "u", "e", DQ, ":", " ">>

RECURSIVE StripZeros(_)
StripZeros(ds) ==
    IF Len(ds) > 1 /\ Head(ds) = "0" THEN StripZeros(Tail(ds)) ELSE ds

\* Where the decimal point of the literal is (Len + 1 when it has none).
PointAt(num) ==
    IF \E i \in 1..Len(num) : num[i] = "."
    THEN CHOOSE i \in 1..Len(num) : num[i] = "."
    ELSE Len(num) + 1

\* printf("%.*lf", p, f) for the double f that strtod made of the literal
\* num, which has no exponent and at most p digits after its point.
Fixed(num, p) ==
    LET sg == IF num[1] \in {"+", "-"} THEN 1 ELSE 0
        whole == SubSeq(num, sg + 1, PointAt(num) - 1)
        frac == SubSeq(num, PointAt(num) + 1, Len(num))
    IN  (IF num[1] = "-" THEN <<"-">> ELSE << >>)
            \o StripZeros(whole)
            \o (IF p > 0
                THEN <<".">> \o [i \in 1..p |-> IF i <= Len(frac) THEN frac[i] ELSE "0"]
                ELSE << >>)

\* f == 0.0 for the double of a literal with no exponent
IsZero(num) == ~NonZero(num)

\* _Mytoml_StringDump: the characters of s with the escapes of JSON
RECURSIVE _Mytoml_StringDump(_)
_Mytoml_StringDump(chars) ==
    IF chars = << >> THEN << >>
    ELSE (IF Head(chars) = NL THEN <<"\\", "n">>
          ELSE IF Head(chars) = CR THEN <<"\\", "r">>
          ELSE IF Head(chars) = TAB THEN <<"\\", "t">>
          ELSE IF Head(chars) = "\\" THEN <<"\\", "\\">>
          ELSE IF Head(chars) = DQ THEN <<"\\", DQ>>
          ELSE <<Head(chars)>>) \o _Mytoml_StringDump(Tail(chars))

\* The children of a hash map in the order they are visited.  The order of
\* a hash map is not specified; the model visits the keys in the order they
\* were made.
RECURSIVE Visited(_)
Visited(S) ==
    IF S = {} THEN << >>
    ELSE <<CHOOSE k \in S : \A j \in S : k <= j>>
            \o Visited(S \ {CHOOSE k \in S : \A j \in S : k <= j})

\* The case TOML_FLOAT of tomlValueDumpBuffer, after the type was written.
\* The %g of a float written with an exponent is not spelled out: it is the
\* one piece "%g".
FloatDump(v) ==
    IF v.num = INFINITY THEN <<DQ, "}", DQ, "i", "n", "f", DQ, "}">>
    ELSE IF v.num = MINUS_INFINITY THEN <<DQ, "-", "i", "n", "f", DQ, "}">>
    ELSE IF v.num = NAN THEN <<DQ, "n", "a", "n", DQ, "}">>
    ELSE IF v.scientific THEN <<DQ, "%g", DQ, "}">>
    ELSE IF IsZero(v.num) THEN <<DQ, "0", ".", "0", DQ, "}">>
    ELSE <<DQ>> \o Fixed(v.num, v.precision) \o <<DQ, "}">>

RECURSIVE tomlKeyDumpBuffer(_, _)
RECURSIVE tomlValueDumpBuffer(_, _)
RECURSIVE DumpKeys(_, _)
RECURSIVE DumpValues(_, _)

\* The loop over the children of a key: each is dumped, with ",\n" between.
DumpKeys(ks, children) ==
    IF children = << >> THEN << >>
    ELSE tomlKeyDumpBuffer(ks, Head(children))
            \o (IF Len(children) > 1 THEN <<",", NL>> ELSE << >>)
            \o DumpKeys(ks, Tail(children))

\* The loop over the elements of an array
DumpValues(ks, arr) ==
    IF arr = << >> THEN << >>
    ELSE tomlValueDumpBuffer(ks, Head(arr))
            \o (IF Len(arr) > 1 THEN <<",", NL>> ELSE << >>)
            \o DumpValues(ks, Tail(arr))

tomlValueDumpBuffer(ks, v) ==
    IF v.type = TOML_STRING
    THEN TypedValue(<<"s", "t", "r", "i", "n", "g">>)
            \o _Mytoml_StringDump(v.str) \o <<DQ, "}">>
    ELSE IF v.type = TOML_FLOAT
    THEN TypedValue(<<"f", "l", "o", "a", "t">>) \o FloatDump(v)
    ELSE IF v.type = TOML_INT
    THEN TypedValue(<<"i", "n", "t", "e", "g", "e", "r">>)
            \o <<DQ>> \o Fixed(v.num, 0) \o <<DQ, "}">>
    ELSE IF v.type = TOML_BOOL
    THEN TypedValue(<<"b", "o", "o", "l">>)
            \o (IF NonZero(v.num) THEN <<DQ, "t", "r", "u", "e", DQ, "}">>
                ELSE <<DQ, "f", "a", "l", "s", "e", DQ, "}">>)
    ELSE IF v.type = TOML_ARRAY
    THEN <<"[", NL>> \o DumpValues(ks, v.arr) \o <<NL, "]">>
    ELSE IF v.type = TOML_INLINETABLE
    THEN <<"{", NL>> \o DumpKeys(ks, Visited(ks[v.data].subkeys)) \o <<NL, "}">>
    ELSE << >>

tomlKeyDumpBuffer(ks, k) ==
    IF ks[k].type = TOML_KEYLEAF /\ ks[k].value.type # "NULL"
       /\ ks[k].value.type # TOML_INLINETABLE
    THEN <<DQ>> \o _Mytoml_StringDump(ks[k].id) \o <<DQ, ":", " ">>
            \o tomlValueDumpBuffer(ks, ks[k].value)
    ELSE IF ks[k].type = TOML_ARRAYTABLE
    THEN <<DQ>> \o _Mytoml_StringDump(ks[k].id) \o <<DQ, ":", " ", "[", NL>>
            \o (IF ks[k].idx + 1 = Len(ks[k].value.arr)
                THEN DumpValues(ks, ks[k].value.arr)
                ELSE <<"undefined">>)
            \o <<NL, "]">>
    ELSE <<DQ>> \o _Mytoml_StringDump(ks[k].id) \o <<DQ, ":", " ", "{", NL>>
            \o DumpKeys(ks, Visited(ks[k].subkeys)) \o <<NL, "}">>

-----------------------------------------------------------------------------
(* Specification SpecNumber: _Mytoml_ParseNumber on every literal of up to *)
(* MaxNum characters of NumChars that starts as a number starts, in the    *)
(* assignment x=<literal>, and tomlValueDumpBuffer on the value it made.   *)

MaxNum == 4         \* longest number literal of the number specification

NumChars == {"0", "1", "5", ".", "+", "-", "_", "e"}

NumLiterals == {v \in SeqsUpTo(NumChars, MaxNum) : v # << >> /\ _Mytoml_IsNumberStart(v[1])}

NumberInit ==
    /\ \E v \in NumLiterals :
          /\ arg = [name |-> "number", text |-> v]
          /\ tok = _Mytoml_NextTokenizerToken(_Mytoml_NextTokenizerToken(
                       _Mytoml_NextTokenizerToken(_Mytoml_NewTokenizer(
                           _Mytoml_TokenizerLoadInput(<<"x", "=">> \o v \o <<NL>>),
                           NUL, 0))))
    /\ result = NoCall
    /\ seen = << >>
    /\ op = [name |-> "new", count |-> 0, from |-> 0, ok |-> FALSE]
    /\ IdleKinds
    /\ IdleLoad

\* _Mytoml_ParseValue's call of _Mytoml_ParseNumber with the end characters
\* of a key=value statement, and the value made of the result.
NumberParse ==
    LET Returned(r) ==
            /\ tok' = r.tok
            /\ result' = [name |-> "number", ok |-> r.val.type # "NULL",
                          value |-> r.val, skipped |-> r.skipped]
        Parsed(m) == Returned(IF m.val.type = "NULL" THEN Fail(m) ELSE m)
    IN  /\ arg.name = "number"
        /\ result = NoCall
        /\ Parsed(_Mytoml_ParseNumber(Machine(tok, << >>), {"#", SP, NL}))
        /\ UNCHANGED <<arg, seen, op, kindVars, loadVars>>

NumberDumped ==
    /\ result.name = "number"
    /\ result.ok
    /\ result' = [name |-> "dump", value |-> result.value,
                  buffer |-> tomlValueDumpBuffer(<< >>, result.value)]
    /\ UNCHANGED <<arg, tokVars, kindVars, loadVars>>

NumberNext == NumberParse \/ NumberDumped

SpecNumber == NumberInit /\ [][NumberNext]_vars

\* The digits the literal writes after its decimal point.
FractionDigits(text) ==
    Cardinality({i \in (PointAt(text) + 1)..Len(text) : text[i] \in Digit})

\* The characters of the buffer between the quotes of "value": "...".
DumpedValue(buffer) ==
    SubSeq(buffer, Len(TypedValue(<<"f", "l", "o", "a", "t">>)) + 2, Len(buffer) - 2)

\* The digits the dumped value has after its decimal point.
DumpedFraction(buffer) == Len(DumpedValue(buffer)) - PointAt(DumpedValue(buffer))

HasExponent(text) == \E i \in 1..Len(text) : text[i] \in {"e", "E"}

\* C12 (as stated): for every float literal without an exponent that
\* _Mytoml_ParseNumber accepts, the stored precision is the number of digits
\* written after the decimal point, and the value tomlValueDumpBuffer emits
\* has exactly that many digits after its decimal point, zero included.
C12_PrecisionIsKept ==
    /\ (result.name = "number" /\ result.ok /\ result.value.type = TOML_FLOAT
        /\ ~HasExponent(arg.text)) =>
            result.value.precision = FractionDigits(arg.text)
    /\ (result.name = "dump" /\ result.value.type = TOML_FLOAT
        /\ ~HasExponent(arg.text)) =>
            /\ result.value.precision = FractionDigits(arg.text)
            /\ PointAt(DumpedValue(result.buffer)) <= Len(DumpedValue(result.buffer))
            /\ DumpedFraction(result.buffer) = result.value.precision

\* The integer part of the literal, after its sign, is a 0 followed by
\* another digit.
LeadingZero(text) ==
    LET sg == IF text[1] \in {"+", "-"} THEN 1 ELSE 0
    IN  /\ Len(text) >= sg + 2
        /\ text[sg + 1] = "0"
        /\ text[sg + 2] \in Digit

\* Some digit before the exponent is not 0.
NonZeroMagnitude(text) ==
    \E i \in 1..Len(text) :
        /\ text[i] \in Digit \ {"0"}
        /\ \A j \in 1..i : text[j] \notin {"e", "E"}

\* C15 (as stated): every decimal literal, integer or float, signed or not,
\* whose integer part has a leading zero on a nonzero magnitude is rejected
\* by _Mytoml_ParseNumber.
C15_LeadingZeroRejected ==
    (result.name = "number" /\ LeadingZero(arg.text) /\ NonZeroMagnitude(arg.text))
        => ~result.ok

-----------------------------------------------------------------------------
(* Serialization of a loaded document: tomlLoadFile, then the root is given *)
(* to tomlKeyDumpBuffer.                                                    *)

MaxDumpLines == 2

TitleLine ==
    <<"t", "i", "t", "l", "e", SP, "=", SP, DQ,
      "T", "O", "M", "L", SP, "E", "x", "a", "m", "p", "l", "e", DQ>>

DumpLines ==
    {TitleLine,
     <<"s", "=", DQ, "a", DQ>>,
     <<"e", "=", DQ, DQ>>,
     <<"x", "=", "1">>,
     <<"y", "=", "0", ".", "5">>,
     <<"z", "=", "0", ".", "0", "0">>,
     <<"b", "=", "t", "r", "u", "e">>,
     <<"i", "=", "+", "i", "n", "f">>,
     <<"i", "=", "i", "n", "f">>,
     <<"j", "=", "-", "i", "n", "f">>,
     <<"n", "=", "n", "a", "n">>,
     <<"[", "a", "]">>,
     <<"t", "=", "{", "c", "=", "1", "}">>}

DumpDocs == SeqsUpTo(DumpLines, MaxDumpLines)

DumpInit ==
    /\ \E doc \in DumpDocs :
          tok = _Mytoml_NextTokenizerToken(
                    _Mytoml_NewTokenizer(_Mytoml_TokenizerLoadInput(FileOf(doc)),
                                         NUL, 0))
    /\ seen = << >>
    /\ op = [name |-> "new", count |-> 0, from |-> 0, ok |-> FALSE]
    /\ IdleKinds
    /\ IdleCall
    /\ keys = NewRoot(tok).keys
    /\ freed = {} /\ calls = << >>
    /\ curkey = root
    /\ status = "parsing"
    /\ toml = NULL
    /\ stmt = NoStmt
    /\ fault = NoFault

\* tomlKeyDumpBuffer on the tree tomlLoadFile returned
DumpRoot ==
    /\ status = "returned"
    /\ toml # NULL
    /\ result = NoCall
    /\ arg' = [name |-> "dump", key |-> toml]
    /\ result' = [name |-> "dump", buffer |-> tomlKeyDumpBuffer(keys, toml)]
    /\ UNCHANGED <<tokVars, kindVars, loadVars>>

DumpNext == LoadStep \/ LoadReturn \/ DumpRoot

SpecDump == DumpInit /\ [][DumpNext]_vars

\* s occurs in b as a run of consecutive characters
Contains(b, s) ==
    \E i \in 0..(Len(b) - Len(s)) : SubSeq(b, i + 1, i + Len(s)) = s

\* b without its white space
RECURSIVE Squeezed(_)
Squeezed(b) ==
    IF b = << >> THEN << >>
    ELSE (IF Head(b) \in {SP, NL, TAB} THEN << >> ELSE <<Head(b)>>)
            \o Squeezed(Tail(b))

\* The tag and the text of a scalar value, as the specification words them.
ScalarTag(v) ==
    IF v.type = TOML_STRING THEN <<"s", "t", "r", "i", "n", "g">>
    ELSE IF v.type = TOML_FLOAT THEN <<"f", "l", "o", "a", "t">>
    ELSE IF v.type = TOML_INT THEN <<"i", "n", "t", "e", "g", "e", "r">>
    ELSE <<"b", "o", "o", "l">>

ScalarText(v) ==
    IF v.type = TOML_STRING THEN v.str
    ELSE IF v.type = TOML_BOOL
    THEN (IF NonZero(v.num) THEN <<"t", "r", "u", "e">> ELSE <<"f", "a", "l", "s", "e">>)
    ELSE IF v.num \in {INFINITY, MINUS_INFINITY, NAN}
    THEN (IF v.num = MINUS_INFINITY THEN <<"-">> ELSE << >>) \o v.num
    ELSE IF v.type = TOML_INT THEN Fixed(v.num, 0)
    ELSE Fixed(v.num, v.precision)

\* "<id>": {"type": "<tag>", "value": "<text>"}
ScalarLeaf(k) ==
    <<DQ>> \o keys[k].id \o <<DQ, ":", " ">> \o TypedValue(ScalarTag(keys[k].value))
        \o <<DQ>> \o ScalarText(keys[k].value) \o <<DQ, "}">>

ScalarLeaves ==
    {k \in keys[root].subkeys :
        /\ keys[k].type = TOML_KEYLEAF
        /\ keys[k].value.type \in {TOML_STRING, TOML_FLOAT, TOML_INT, TOML_BOOL}}

\* C13: the serialization of a loaded document is a JSON object keyed by the
\* identifiers of the root's children, in which every scalar leaf is written
\* {"type": "<tag>", "value": "<text>"} with one opening and one closing
\* quote around the text; title = "TOML Example" gives
\* {"title": {"type": "string", "value": "TOML Example"}} up to white space,
\* and a float of +infinity is written "inf".
C13_ScalarLeafIsQuoted ==
    (result.name = "dump") =>
        /\ Head(result.buffer) = "{"
        /\ \A k \in ScalarLeaves : Contains(result.buffer, ScalarLeaf(k))
        /\ Loaded(<<TitleLine>>) =>
              Squeezed(result.buffer)
                  = Squeezed(<<"{">> \o ScalarLeaf(CHOOSE k \in ScalarLeaves : TRUE)
                                \o <<"}">>)

-----------------------------------------------------------------------------
(* Datetimes: CHECK_DATE, CHECK_TIME and _Mytoml_IsValidDatetime, as        *)
(* _Mytoml_ParseDatetime applies them to the fields sscanf cut out of the   *)
(* literal.  A field is the number strtoul read from its digits.            *)

\* A date whose leap years are the years divisible by 4.
IsDateEveryFourthYear(year, month, day) ==
    IF month \in {0, 2, 4, 6, 7, 9, 11} THEN day >= 1 /\ day <= 31
    ELSE IF month \in {3, 5, 8, 10} THEN day >= 1 /\ day <= 30
    ELSE IF month = 1
    THEN \/ day >= 1 /\ day <= 28
         \/ day = 29 /\ year % 4 = 0
    ELSE FALSE

\* month is tm_mon: 0 is January
_Mytoml_IsDate(year, month, day) ==
    IF month \in {0, 2, 4, 6, 7, 9, 11} THEN day >= 1 /\ day <= 31
    ELSE IF month \in {3, 5, 8, 10} THEN day >= 1 /\ day <= 30
    ELSE IF month = 1
    THEN \/ day >= 1 /\ day <= 28
         \/ day = 29 /\ year % 4 = 0 /\ year % 100 # 0
         \/ day = 29 /\ year % 4 = 0 /\ year % 100 = 0 /\ year % 400 = 0
    ELSE FALSE

_Mytoml_IsValidDatetime(datetime) ==
    /\ datetime.tm_hour >= 0 /\ datetime.tm_hour <= 23
    /\ datetime.tm_min >= 0 /\ datetime.tm_min <= 59
    /\ datetime.tm_sec >= 0 /\ datetime.tm_sec <= 59
    /\ _Mytoml_IsDate(datetime.tm_year + 1900, datetime.tm_mon, datetime.tm_mday)

\* calloc(1, sizeof(struct tm))
ZeroTm == [tm_year |-> 0, tm_mon |-> 0, tm_mday |-> 0,
           tm_hour |-> 0, tm_min |-> 0, tm_sec |-> 0]

\* CHECK_DATE: num is an unsigned long and the field an int; num - 1900 and
\* num - 1 wrap below zero and the conversion to int gives the difference.
CHECK_DATE(time, year, mon, mday) ==
    [time EXCEPT !.tm_year = year - 1900, !.tm_mon = mon - 1, !.tm_mday = mday]

CHECK_TIME(time, hour, min, sec) ==
    [time EXCEPT !.tm_hour = hour, !.tm_min = min, !.tm_sec = sec]

\* The struct tm the three families of shapes hand to _Mytoml_IsValidDatetime:
\* a date with a time, a date alone, a time alone (on 1900-01-01).
DatetimeFields(a) ==
    IF a.shape = "datetime"
    THEN CHECK_TIME(CHECK_DATE(ZeroTm, a.year, a.mon, a.mday), a.hour, a.min, a.sec)
    ELSE IF a.shape = "date"
    THEN CHECK_DATE(ZeroTm, a.year, a.mon, a.mday)
    ELSE [CHECK_TIME(ZeroTm, a.hour, a.min, a.sec)
            EXCEPT !.tm_year = 0, !.tm_mon = 0, !.tm_mday = 1]

Years == {0, 4, 100, 1900, 1979, 2000, 2023, 2024, 2100, 9999}
Months == 0..13 \cup {99}
Days == {0, 1, 28, 29, 30, 31, 32, 99}
Hours == {0, 23, 24, 99}
Minutes == {0, 59, 60}
Seconds == {0, 59, 60}

DatetimeInit ==
    /\ IdleTok /\ IdleKinds /\ IdleLoad
    /\ result = NoCall
    /\ \E shape \in {"datetime", "date", "time"} :
       \E year \in Years, mon \in Months, mday \in Days :
       \E hour \in Hours, min \in Minutes, sec \in Seconds :
          /\ (shape = "time") => (year = 0 /\ mon = 0 /\ mday = 0)
          /\ (shape = "date") => (hour = 0 /\ min = 0 /\ sec = 0)
          /\ arg = [name |-> "datetime", shape |-> shape, year |-> year,
                    mon |-> mon, mday |-> mday, hour |-> hour, min |-> min,
                    sec |-> sec]

DatetimeCheck ==
    /\ arg.name = "datetime"
    /\ result = NoCall
    /\ result' = [name |-> "datetime", time |-> DatetimeFields(arg),
                  ok |-> _Mytoml_IsValidDatetime(DatetimeFields(arg))]
    /\ UNCHANGED <<tokVars, kindVars, loadVars, arg>>

SpecDatetime == DatetimeInit /\ [][DatetimeCheck]_vars

\* The reference: the length of a month of the calendar, months from 1
LeapYear(y) == (y % 4 = 0 /\ y % 100 # 0) \/ y % 400 = 0

MonthLength(y, m) ==
    IF m = 2 THEN (IF LeapYear(y) THEN 29 ELSE 28)
    ELSE IF m \in {4, 6, 9, 11} THEN 30
    ELSE IF m \in {1, 3, 5, 7, 8, 10, 12} THEN 31
    ELSE 0

ValidDate(a) == a.mday >= 1 /\ a.mday <= MonthLength(a.year, a.mon)

ValidTime(a) ==
    /\ 0 <= a.hour /\ a.hour <= 23
    /\ 0 <= a.min /\ a.min <= 59
    /\ 0 <= a.sec /\ a.sec <= 59

\* C14: a datetime passes _Mytoml_IsValidDatetime exactly when its day lies
\* within the length of its month, February having 29 days in the years
\* divisible by 4 and not by 100, or divisible by 400, and its hour lies in
\* 0..23 and its minute and second in 0..59.
C14_DatetimeIsValid ==
    (result.name = "datetime") =>
        (result.ok <=> /\ (arg.shape # "time") => ValidDate(arg)
                       /\ (arg.shape # "date") => ValidTime(arg))

\* 29 February of a century year divisible by 400 is accepted, with its time.
C14_Witness ==
    /\ result.name = "datetime" /\ result.ok
    /\ arg.shape = "datetime"
    /\ arg.year = 2000 /\ arg.mon = 2 /\ arg.mday = 29
    /\ arg.hour = 23 /\ arg.min = 59 /\ arg.sec = 59

-----------------------------------------------------------------------------
(* Arrays: _Mytoml_ParseValue on the value of  a=[...]  whose text between  *)
(* the brackets is a sequence of elements, commas, spaces, newlines and     *)
(* comments.                                                                *)

MaxItems == 5

One == <<"1">>
True == <<"t", "r", "u", "e">>
Comma == <<",">>
Space == <<SP>>
Newline == <<NL>>
Comment == <<"#", "c", NL>>

ArrayItems == {One, True, Comma, Space, Newline, Comment}

RECURSIVE Flat(_)
Flat(items) == IF items = << >> THEN << >> ELSE Head(items) \o Flat(Tail(items))

\* The tokenizer on the first character of the value of  a=[items]
ArrayTokenizer(items) ==
    _Mytoml_NextTokenizerToken(_Mytoml_NextTokenizerToken(
        _Mytoml_NextTokenizerToken(_Mytoml_NewTokenizer(
            _Mytoml_TokenizerLoadInput(<<"a", "=", "[">> \o Flat(items) \o <<"]", NL>>),
            NUL, 0))))

ArrayValue(items) ==
    _Mytoml_ParseValue(Machine(ArrayTokenizer(items), << >>), {"#", SP, NL})

ArrayInit ==
    /\ IdleKinds /\ IdleLoad
    /\ seen = << >>
    /\ op = [name |-> "new", count |-> 0, from |-> 0, ok |-> FALSE]
    /\ result = NoCall
    /\ \E items \in SeqsUpTo(ArrayItems, MaxItems) :
          /\ arg = [name |-> "array", items |-> items]
          /\ tok = ArrayTokenizer(items)

ArrayParse ==
    LET Parsed(m) ==
            /\ tok' = m.tok
            /\ result' = [name |-> "array", ok |-> m.val.type # "NULL",
                          value |-> m.val, skipped |-> m.skipped]
    IN  /\ arg.name = "array"
        /\ result = NoCall
        /\ Parsed(_Mytoml_ParseValue(Machine(tok, << >>), {"#", SP, NL}))
        /\ UNCHANGED <<seen, op, kindVars, loadVars, arg>>

SpecArray == ArrayInit /\ [][ArrayParse]_vars

\* The elements ("v") and commas of an array text.  Two digits with nothing
\* between them are one number.
RECURSIVE Skeleton(_, _)
Skeleton(items, digit) ==
    IF items = << >> THEN << >>
    ELSE IF Head(items) = One
    THEN (IF digit THEN << >> ELSE <<"v">>) \o Skeleton(Tail(items), TRUE)
    ELSE IF Head(items) = True THEN <<"v">> \o Skeleton(Tail(items), FALSE)
    ELSE IF Head(items) = Comma THEN <<",">> \o Skeleton(Tail(items), FALSE)
    ELSE Skeleton(Tail(items), FALSE)

Twice(sk, c) == \E i \in 1..(Len(sk) - 1) : sk[i] = c /\ sk[i + 1] = c

\* The same text with a space for every newline and every comment
Spaced(items) ==
    [i \in 1..Len(items) |->
        IF items[i] \in {Newline, Comment} THEN Space ELSE items[i]]

-----------------------------------------------------------------------------
(* Long identifiers: tomlLoadFile on a one-line document whose key segment  *)
(* is as long as MYTOML_MAX_ID_LENGTH, or a little shorter or longer.       *)

KeyMargin == 2

KeyLengths ==
    (MYTOML_MAX_ID_LENGTH - KeyMargin)..(MYTOML_MAX_ID_LENGTH + KeyMargin)

KeyId(a) == [i \in 1..a.n |-> a.fill]

\* The segment as it is written: bare, or between quotes.
KeySegment(a) ==
    IF a.kind = "bare" THEN KeyId(a)
    ELSE IF a.kind = "basic" THEN <<DQ>> \o KeyId(a) \o <<DQ>>
    ELSE <<"'">> \o KeyId(a) \o <<"'">>

KeyLine(a) ==
    IF a.form = "key" THEN KeySegment(a) \o <<"=", "1">>
    ELSE IF a.form = "dotted" THEN <<"a", ".">> \o KeySegment(a) \o <<"=", "1">>
    ELSE <<"[">> \o KeySegment(a) \o <<"]">>

KeyInit ==
    /\ \E kind \in {"bare", "basic", "literal"}, n \in KeyLengths :
       \E fill \in {"k", "_", "7"}, form \in {"key", "dotted", "table"} :
          /\ arg = [name |-> "key", kind |-> kind, n |-> n, fill |-> fill,
                    form |-> form]
          /\ tok = _Mytoml_NextTokenizerToken(
                       _Mytoml_NewTokenizer(
                           _Mytoml_TokenizerLoadInput(FileOf(<<KeyLine(arg)>>)),
                           NUL, 0))
    /\ result = NoCall
    /\ seen = << >>
    /\ op = [name |-> "new", count |-> 0, from |-> 0, ok |-> FALSE]
    /\ IdleKinds
    /\ keys = NewRoot(tok).keys
    /\ freed = {} /\ calls = << >>
    /\ curkey = root
    /\ status = "parsing"
    /\ toml = NULL
    /\ stmt = NoStmt
    /\ fault = NoFault

SpecKey == KeyInit /\ [][LoadNext]_vars

\* The key that holds the long segment: a child of the root, or of a.
KeyParent ==
    IF arg.form = "dotted"
    THEN UNION {keys[p].subkeys : p \in Named(root, <<"a">>)}
    ELSE keys[root].subkeys

\* C17: a key segment of exactly MYTOML_MAX_ID_LENGTH characters, bare or
\* quoted, is accepted and stored whole; one of MYTOML_MAX_ID_LENGTH + 1
\* characters is rejected; an identifier is never cut short.
C17_IdentifierOfMaxLength ==
    (arg.name = "key" /\ status = "returned") =>
        /\ (arg.n <= MYTOML_MAX_ID_LENGTH) =>
              (toml # NULL /\ \E k \in KeyParent : keys[k].id = KeyId(arg))
        /\ (arg.n > MYTOML_MAX_ID_LENGTH) => toml = NULL
        /\ (toml # NULL) => \A k \in KeyParent : keys[k].id = KeyId(arg)

-----------------------------------------------------------------------------
(* The end of the file: tomlLoadFile on documents whose last line has no    *)
(* newline after it.                                                        *)

MaxEofLines == 2

EofLines ==
    {<<"#", "c">>,
     <<"#">>,
     <<"x", "=", "1">>,
     <<"x", "=", "1", SP, "#", "c">>,
     <<"[", "a", "]">>,
     <<"[", "a", "]", SP, "#", "c">>,
     <<SP>>,
     << >>}

\* The bytes of a file whose lines are ls, the last one not ended.
FileNoNewline(ls) ==
    FileOf(SubSeq(ls, 1, Len(ls) - 1)) \o ls[Len(ls)]

EofInit ==
    /\ \E doc \in SeqsUpTo(EofLines, MaxEofLines) \ {<< >>} :
          /\ arg = [name |-> "eof", doc |-> doc]
          /\ tok = _Mytoml_NextTokenizerToken(
                       _Mytoml_NewTokenizer(
                           _Mytoml_TokenizerLoadInput(FileNoNewline(doc)), NUL, 0))
    /\ result = NoCall
    /\ seen = << >>
    /\ op = [name |-> "new", count |-> 0, from |-> 0, ok |-> FALSE]
    /\ IdleKinds
    /\ keys = NewRoot(tok).keys
    /\ freed = {} /\ calls = << >>
    /\ curkey = root
    /\ status = "parsing"
    /\ toml = NULL
    /\ stmt = NoStmt
    /\ fault = NoFault

SpecEof == EofInit /\ [][LoadNext]_vars

\* The last line is a comment, after at most one line that is a statement,
\* a header, a comment or blank.
EndsWithComment(doc) ==
    /\ doc[Len(doc)] # << >>
    /\ Head(doc[Len(doc)]) = "#"
    /\ Len(doc) <= 2

\* C18: a document whose last line is a comment that ends at the end of the
\* file, with no newline after it, is accepted: the load returns the root.
C18_CommentAtEndOfFile ==
    (arg.name = "eof" /\ status = "returned" /\ EndsWithComment(arg.doc))
        => toml # NULL

-----------------------------------------------------------------------------
(* The three entry points: tomlLoadFile on a path, tomlLoadFILE on an open  *)
(* stream, tomlLoads on a string, each given the same document.             *)

MaxEntryLines == 2
MaxOverrun == 2

EntryLines == {<<"x", "=", "1">>, <<"[", "a", "]">>, <<"#", "c">>, << >>}

EntryDocs == SeqsUpTo(EntryLines, MaxEntryLines)

\* What a read past the end of the string can find
WildChars == {NUL, EOFc, NL, "x"}

\* strdup(toml): the characters and the terminating '\0', and no sentinel
StringInput(bytes) == Append(bytes, NUL)

\* The tokenizer each entry point starts its loop with.  tomlLoadFILE stores
\* the FILE pointer in the union member file.pointer and the type I_File, so
\* _Mytoml_TokenizerLoadInput calls fopen on the bytes of the FILE object as
\* if they were a file name: the call either fails, and fseek is given a null
\* stream, or opens whatever file those bytes name.
EntryTokenizer(form, doc, other, wc) ==
    _Mytoml_NextTokenizerToken(
        _Mytoml_NewTokenizer(
            IF form = "file" THEN _Mytoml_TokenizerLoadInput(FileOf(doc))
            ELSE IF form = "FILE" THEN _Mytoml_TokenizerLoadInput(FileOf(other))
            ELSE StringInput(FileOf(doc)),
            wc, 0))

EntryInit ==
    /\ \E form \in {"file", "FILE", "string"}, doc \in EntryDocs :
       \E other \in EntryDocs, wc \in WildChars, crash \in BOOLEAN :
          /\ (form # "FILE") => (other = doc /\ ~crash)
          /\ (form # "string") => (wc = NUL)
          /\ arg = [name |-> "entry", form |-> form, doc |-> doc]
          /\ tok = EntryTokenizer(form, doc, other, wc)
          /\ status = IF crash THEN "crashed" ELSE "parsing"
          /\ fault = [NoFault EXCEPT !.ub = (form = "FILE")]
    /\ result = NoCall
    /\ seen = << >>
    /\ op = [name |-> "new", count |-> 0, from |-> 0, ok |-> FALSE]
    /\ IdleKinds
    /\ keys = NewRoot(tok).keys
    /\ freed = {} /\ calls = << >>
    /\ curkey = root
    /\ toml = NULL
    /\ stmt = NoStmt

\* The loop of the entry point, as long as the reads past the end of the
\* string stay within MaxOverrun characters.
EntryStep ==
    /\ tok.cursor <= Len(tok.stream) + MaxOverrun
    /\ LoadStep

EntryNext == EntryStep \/ LoadReturn

SpecEntry == EntryInit /\ [][EntryNext]_vars

\* What tomlLoadFile makes of a document: the keys, and the root or NULL.
RECURSIVE FileLoop(_, _)
FileLoop(m, key) ==
    LET Parsed(r) ==
            IF r.ret = NULL THEN [keys |-> r.keys, toml |-> NULL]
            ELSE FileLoop(r, r.ret)
    IN  IF ~_Mytoml_TokenizerHasToken(m.tok) THEN [keys |-> m.keys, toml |-> root]
        ELSE Parsed(_Mytoml_ParseKeyValue(m, key, root))

FromFile(doc) ==
    LET Start(t) == FileLoop(Machine(t, NewRoot(t).keys), root)
    IN  Start(EntryTokenizer("file", doc, doc, NUL))

\* C19: tomlLoads, tomlLoadFile and tomlLoadFILE agree on every document; the
\* tokenizer finds the end of the buffer for each source form and never
\* reads past it; the empty document gives a root without children.
C19_EntryPointsAgree ==
    (arg.name = "entry") =>
        /\ status # "crashed"
        /\ ~fault.ub /\ ~tok.ub
        /\ tok.cursor <= Len(tok.stream)
        /\ (status = "returned") =>
              /\ (toml = NULL) = (FromFile(arg.doc).toml = NULL)
              /\ (toml # NULL) => keys = FromFile(arg.doc).keys
              /\ (arg.doc = << >>) => (toml = root /\ keys[root].subkeys = {})

-----------------------------------------------------------------------------
(* The caps: tomlLoadFile on documents with as many children of one key,    *)
(* elements of one array or entries of one array of tables as the caps      *)
(* allow, and a few more.                                                   *)

CapMargin == 2

CapNames == <<"a", "b", "c", "d", "e", "f", "g", "h", "i", "j">>

CapCounts == 0..(MYTOML_MAX_SUBKEYS + CapMargin)

RECURSIVE Joined(_, _)
Joined(parts, sep) ==
    IF parts = << >> THEN << >>
    ELSE IF Len(parts) = 1 THEN Head(parts)
    ELSE Head(parts) \o sep \o Joined(Tail(parts), sep)

\* The document with n children, elements or entries
CapDoc(kind, n) ==
    IF kind = "keys" THEN [i \in 1..n |-> <<CapNames[i], "=", "1">>]
    ELSE IF kind = "tables" THEN [i \in 1..n |-> <<"[", CapNames[i], "]">>]
    ELSE IF kind = "subkeys"
    THEN << <<"[", "t", "]">> >> \o [i \in 1..n |-> <<CapNames[i], "=", "1">>]
    ELSE IF kind = "inline"
    THEN << <<"t", "=", "{">>
               \o Joined([i \in 1..n |-> <<CapNames[i], "=", "1">>], <<",">>)
               \o <<"}">> >>
    ELSE IF kind = "array"
    THEN << <<"x", "=", "[">> \o Joined([i \in 1..n |-> <<"1">>], <<",">>)
               \o <<"]">> >>
    ELSE [i \in 1..n |-> <<"[", "[", "t", "]", "]">>]

CapInit ==
    /\ \E kind \in {"keys", "tables", "subkeys", "inline", "array", "arraytable"} :
       \E n \in CapCounts :
          /\ arg = [name |-> "cap", kind |-> kind, n |-> n]
          /\ tok = _Mytoml_NextTokenizerToken(
                       _Mytoml_NewTokenizer(
                           _Mytoml_TokenizerLoadInput(FileOf(CapDoc(kind, n))),
                           NUL, 0))
    /\ result = NoCall
    /\ seen = << >>
    /\ op = [name |-> "new", count |-> 0, from |-> 0, ok |-> FALSE]
    /\ IdleKinds
    /\ keys = NewRoot(tok).keys
    /\ freed = {} /\ calls = << >>
    /\ curkey = root
    /\ status = "parsing"
    /\ toml = NULL
    /\ stmt = NoStmt
    /\ fault = NoFault

SpecCaps == CapInit /\ [][LoadNext]_vars

\* The keys of the tree under the root, those of inline tables included
ArrayWithinCap(v) == (v.type = TOML_ARRAY) => Len(v.arr) <= MYTOML_MAX_ARRAY_LENGTH

WithinCaps(k) ==
    /\ Cardinality(keys[k].subkeys) <= MYTOML_MAX_SUBKEYS
    /\ ArrayWithinCap(keys[k].value)
    /\ (keys[k].type = TOML_ARRAYTABLE) =>
          /\ Len(keys[k].value.arr) <= MYTOML_MAX_ARRAY_LENGTH
          /\ (keys[k].idx + 1) % SizeMod <= MYTOML_MAX_ARRAY_LENGTH

ExceedsCap ==
    IF arg.kind \in {"array", "arraytable"} THEN arg.n > MYTOML_MAX_ARRAY_LENGTH
    ELSE arg.n > MYTOML_MAX_SUBKEYS

\* C20: in a tree the load returned no key has more than MYTOML_MAX_SUBKEYS
\* children, no array more than MYTOML_MAX_ARRAY_LENGTH elements and no
\* array of tables more than MYTOML_MAX_ARRAY_LENGTH entries; a document
\* that exceeds a cap is rejected.
C20_CapsHold ==
    (arg.name = "cap" /\ status = "returned") =>
        /\ (toml # NULL) => \A k \in (1..Len(keys)) \ freed : WithinCaps(k)
        /\ ExceedsCap => toml = NULL

\* A document with exactly MYTOML_MAX_SUBKEYS keys is loaded, and the root
\* has them all.
C20_Witness ==
    /\ arg.name = "cap" /\ arg.kind = "keys" /\ arg.n = MYTOML_MAX_SUBKEYS
    /\ status = "returned" /\ toml = root
    /\ Cardinality(keys[root].subkeys) = MYTOML_MAX_SUBKEYS

-----------------------------------------------------------------------------
(* Specification SpecMulti: tomlLoadFile on the one-statement documents    *)
(* s = """body""" and s = '''body''', for every body of at most MaxBody    *)
(* characters of BodyChars.                                                *)

MaxBody == 4

BodyChars == {NL, "a", "b"}

MultiDoc(quote, body) ==
    <<"s", "=", quote, quote, quote>> \o body \o <<quote, quote, quote, NL>>

\* The state tomlLoadFile is in when the loop starts on a file of these bytes.
LoadFrom(bytes) ==
    /\ tok = _Mytoml_NextTokenizerToken(
                 _Mytoml_NewTokenizer(_Mytoml_TokenizerLoadInput(bytes), NUL, 0))
    /\ result = NoCall
    /\ seen = << >>
    /\ op = [name |-> "new", count |-> 0, from |-> 0, ok |-> FALSE]
    /\ IdleKinds
    /\ keys = NewRoot(tok).keys
    /\ freed = {} /\ calls = << >>
    /\ curkey = root
    /\ status = "parsing"
    /\ toml = NULL
    /\ stmt = NoStmt
    /\ fault = NoFault

MultiInit ==
    \E quote \in {"DQ", "'"}, body \in SeqsUpTo(BodyChars, MaxBody) :
        /\ arg = [name |-> "multi", quote |-> quote, body |-> body]
        /\ LoadFrom(MultiDoc(quote, body))

SpecMulti == MultiInit /\ [][LoadNext]_vars

\* The body without the newline that immediately follows the opening quotes.
FirstNewlineDropped(body) ==
    IF body # << >> /\ Head(body) = NL THEN Tail(body) ELSE body

\* The string values of the children of the root that are named id.
StringsOf(id) ==
    {keys[k].value.str : k \in {s \in Named(root, id) :
                                    keys[s].value.type = TOML_STRING}}

\* C21: the value of a multi-line basic or literal string is its body
\* without the single newline that immediately follows the opening
\* delimiter; every later newline is kept, a second newline directly after
\* the first included.
C21_OnlyFirstNewlineDropped ==
    (arg.name = "multi" /\ status = "returned") =>
        /\ toml = root
        /\ StringsOf(<<"s">>) = {FirstNewlineDropped(arg.body)}

-----------------------------------------------------------------------------
(* Specification SpecDiag: tomlLoadFile on the documents of at most        *)
(* MaxDiagLines lines of DiagLines, each statement on one line.  When a    *)
(* statement fails, tomlLoadFile reads tok->line and tok->col and prints   *)
(* "At line %d column %d" with line + 1 and col.                           *)

MaxDiagLines == 3

DiagLines ==
    {<<"a", "=", "1">>,
     <<"b", "=", "t", "r", "u", "e">>,
     <<"a", ".", "b", "=", "1">>,
     <<"[", "a", "]">>,
     <<"#", "c">>,
     <<"?">>,
     << >>}

DiagInit ==
    \E doc \in SeqsUpTo(DiagLines, MaxDiagLines) \ {<< >>} :
        /\ arg = [name |-> "diag", doc |-> doc]
        /\ LoadFrom(FileOf(doc))

SpecDiag == DiagInit /\ [][LoadNext]_vars

\* line = tok->line; col = tok->col; ... "At line %d column %d", line + 1, col
Diagnostic == [line |-> tok.line + 1, col |-> tok.col]

\* The 1-based number of the source line the p-th character stands on.
RECURSIVE SourceLine(_, _)
SourceLine(stream, p) ==
    IF p <= 1 THEN 1
    ELSE SourceLine(stream, p - 1) + (IF stream[p - 1] = NL THEN 1 ELSE 0)

Rejected == status = "returned" /\ toml = NULL

\* C22: when a document is rejected, the line of the diagnostic is the
\* 1-based number of the source line on which the failing statement stands,
\* whatever backtracks happened before the failure.
C22_DiagnosticLine ==
    (arg.name = "diag" /\ Rejected /\ ~fault.ub) =>
        Diagnostic.line = SourceLine(tok.stream, stmt.cursor)

-----------------------------------------------------------------------------
(* Specification SpecFree: tomlLoadFile on the documents of at most        *)
(* MaxFreeLines lines of FreeLines, then tomlFree on the root it returned. *)

MaxFreeLines == 2

FreeLines ==
    {<<"x", "=", "1">>,
     <<"s", "=", DQ, "a", DQ>>,
     <<"v", "=", "[", "1", ",", "[", "2", "]", "]">>,
     <<"t", "=", "{", "c", "=", "1", "}">>,
     <<"a", ".", "b", "=", "1">>,
     <<"[", "a", "]">>,
     <<"[", "c", ".", "d", "]">>}

FreeInit ==
    \E doc \in SeqsUpTo(FreeLines, MaxFreeLines) :
        /\ arg = [name |-> "free", doc |-> doc]
        /\ LoadFrom(FileOf(doc))

\* tomlFree(root) by the caller that owns the tree
FreeRoot ==
    LET Freed(m) ==
            /\ freed' = m.freed
            /\ result' = [name |-> "free",
                          values |-> _Mytoml_FreeValue(keys[toml].value)]
    IN  /\ status = "returned"
        /\ toml # NULL
        /\ Freed(tomlFree([Machine(tok, keys) EXCEPT !.freed = freed], toml))
        /\ status' = "freed"
        /\ UNCHANGED <<tokVars, kindVars, arg, keys, calls, curkey, toml, stmt, fault>>

FreeNext == LoadStep \/ LoadReturn \/ FreeRoot

SpecFree == FreeInit /\ [][FreeNext]_vars

\* The keys a walk from key k through the child maps meets.
RECURSIVE Reachable(_)
Reachable(k) == {k} \cup UNION {Reachable(c) : c \in keys[k].subkeys}

\* The values of a log of _Mytoml_FreeValue.
ValuesFreed(log) == {log[i] : i \in 1..Len(log)}

\* C23: after tomlFree(root) returned, the root, every key reachable
\* through the child maps and every value attached to one of these keys has
\* been freed.
C23_FreeReleasesTheTree ==
    (arg.name = "free" /\ status = "freed") =>
        \A k \in Reachable(toml) :
            /\ k \in freed
            /\ (keys[k].value # NoValue) => (keys[k].value \in ValuesFreed(result.values))

-----------------------------------------------------------------------------
(* _Mytoml_TokenizerBacktrace and the position: the line and the column   *)
(* after a backtrack, and the reads of the column table tok->lines.        *)

\* The backtrack from tokenizer t by count reads tok->lines[-1]: the loop
\* over the column table ends with line below 0 only after `--tok->line`
\* went from 0 to -1 and the table was read there.
ReadsBelowZero(t, count) ==
    BacktraceSucceeds(t, count)
        /\ BacktraceLines(t, t.line, count + 2, t.col).line < 0

\* C24 (first part): a backtrack succeeds only if n >= 1 and the cursor is
\* greater than n + 2, and a backtrack that does not succeed leaves the whole
\* tokenizer unchanged.
C24_FailedBacktraceChangesNothing ==
    [][(op'.name = "backtrace" /\ op' # op) =>
          /\ op'.ok = (op'.count >= 1 /\ tok.cursor > op'.count + 2)
          /\ (~op'.ok) => (tok' = tok)]_vars

\* C24: a backtrack that succeeds leaves the line and the column the
\* tokenizer had when it was first at the rewound position, and never reads
\* the column table below index 0.
C24_BacktraceRestoresPosition ==
    [][(op'.name = "backtrace" /\ op'.ok /\ op' # op) =>
          /\ tok'.line = seen[tok'.cursor].line
          /\ tok'.col = seen[tok'.cursor].col
          /\ ~ReadsBelowZero(tok, op'.count)]_vars

-----------------------------------------------------------------------------
(* Specification SpecEmpty: tomlLoadFile on documents whose value is or    *)
(* holds the empty basic string "" or the empty literal string '', in      *)
(* every position of a value and before every character that may follow.  *)

\* What may stand between the closing quote of a value of a key=value pair
\* and the end of the file.
AfterPair ==
    {<<NL>>, <<SP, NL>>, <<TAB, NL>>, <<"#", "c", NL>>, <<SP, "#", NL>>,
     << >>, <<SP>>, <<NL, "b", "=", "1", NL>>}

\* What may stand between the closing quote of an element and the `]`.
AfterElement ==
    {<< >>, <<SP>>, <<NL>>, <<",">>, <<",", "1">>, <<SP, ",", "1">>,
     <<"#", "c", NL>>}

\* What may stand between the closing quote of a value of an inline table
\* and the `}`.
AfterMember == {<< >>, <<SP>>, <<",", "c", "=", "1">>, <<SP, ",", "c", "=", "1">>}

EmptyDocs ==
    LET Holding(q) ==
            {<<"a", "=", q, q>> \o f : f \in AfterPair}
            \cup {<<"a", "=", "[", q, q>> \o f \o <<"]", NL>> : f \in AfterElement}
            \cup {<<"a", "=", "{", "b", "=", q, q>> \o f \o <<"}", NL>> :
                     f \in AfterMember}
    IN  Holding(DQ) \cup Holding("'")

EmptyInit ==
    \E bytes \in EmptyDocs, first \in {<< >>, <<"x", "=", "1", NL>>} :
        /\ arg = [name |-> "empty", doc |-> first \o bytes]
        /\ LoadFrom(first \o bytes)

SpecEmpty == EmptyInit /\ [][LoadNext]_vars

\* C25: a document whose value is the empty basic or literal string, alone,
\* as an element of an array or as a value of an inline table, followed by
\* any character that may follow a value, is accepted.
C25_EmptyStringAccepted ==
    (arg.name = "empty" /\ status = "returned") => toml # NULL

-----------------------------------------------------------------------------
(* Specification SpecSameLine: tomlLoadFile on one line that holds a       *)
(* statement and then, before the newline, nothing, a comment or a second  *)
(* statement.                                                              *)

FirstStatements ==
    {<<"a", "=", "1">>, <<"a", "=", "t", "r", "u", "e">>,
     <<"a", "=", DQ, "x", DQ>>, <<"a", "=", "[", "1", "]">>,
     <<"[", "a", "]">>, <<"[", "a", ".", "c", "]">>}

SecondStatements ==
    {<<"b", "=", "2">>, <<"[", "b", "]">>, <<"[", "[", "b", "]", "]">>}

NoStatements == {<< >>, <<"#", "c">>}

Gaps == {<< >>, <<SP>>, <<TAB>>}

SameLineInit ==
    \E first \in FirstStatements, gap \in Gaps,
       second \in SecondStatements \cup NoStatements :
        /\ arg = [name |-> "sameline", first |-> first, gap |-> gap,
                  second |-> second]
        /\ LoadFrom(first \o gap \o second \o <<NL>>)

SpecSameLine == SameLineInit /\ [][LoadNext]_vars

\* C26: a line that holds a key=value pair or a table header and then a
\* further key=value pair or a further header is rejected.
C26_SecondStatementRejected ==
    (arg.name = "sameline" /\ arg.second \in SecondStatements
        /\ status = "returned") => toml = NULL

-----------------------------------------------------------------------------
(* Specification SpecInfNan: tomlLoadFile on `a=` followed by an optional  *)
(* sign and a word that starts with i or n.                                *)

MaxWord == 5
WordChars == {"i", "n", "f", "a", "x"}

Words == {w \in SeqsUpTo(WordChars, MaxWord) : w # << >> /\ Head(w) \in {"i", "n"}}

InfNanInit ==
    \E sign \in {<< >>, <<"+">>, <<"-">>}, word \in Words :
        /\ arg = [name |-> "infnan", sign |-> sign, word |-> word]
        /\ LoadFrom(<<"a", "=">> \o sign \o word \o <<NL>>)

SpecInfNan == InfNanInit /\ [][LoadNext]_vars

\* C27: a value that begins with i or n, after at most one sign, is
\* accepted only when its characters are exactly inf or exactly nan.
C27_OnlyInfAndNan ==
    (arg.name = "infnan" /\ status = "returned" /\ toml # NULL) =>
        arg.word \in {<<"i", "n", "f">>, <<"n", "a", "n">>}

-----------------------------------------------------------------------------
(* Specification SpecEscape: tomlLoadFile on a basic string that holds one *)
(* escape \uXXXX or \UXXXXXXXX and then up to MaxAfter further characters, *)
(* hexadecimal digits among them.                                          *)

MaxAfter == 2
AfterChars == {"a", "1", "z"}

Escapes4 == {<<"0", "0", "e", "9">>, <<"0", "0", "4", "1">>, <<"2", "0", "a", "c">>}
Escapes8 == {<<"0", "0", "0", "0">> \o d : d \in Escapes4}
               \cup {<<"0", "0", "0", "1", "f", "6", "0", "0">>}

EscapeInit ==
    \E kind \in {"u", "U"}, after \in SeqsUpTo(AfterChars, MaxAfter) :
        \E digits \in (IF kind = "u" THEN Escapes4 ELSE Escapes8) :
            /\ arg = [name |-> "escape", kind |-> kind, digits |-> digits,
                      after |-> after]
            /\ LoadFrom(<<"s", "=", DQ, "\\", kind>> \o digits \o after
                            \o <<DQ, NL>>)

SpecEscape == EscapeInit /\ [][LoadNext]_vars

\* The bytes _Mytoml_ParseUnicode writes for the scalar these digits name.
EscapeBytes(digits) ==
    LET Bytes(u) == [i \in 1..Len(u.escaped) |-> Byte(u.escaped[i])]
    IN  Bytes(UnicodeEncode(tok, StrToUl(digits), 4))

\* C28: \u takes exactly 4 hexadecimal digits and \U exactly 8; the
\* characters after them, hexadecimal digits included, are data of the
\* string: the document is accepted and the string is the bytes of the
\* scalar followed by these characters.
C28_EscapeTakesItsDigitsOnly ==
    (arg.name = "escape" /\ status = "returned") =>
        /\ toml # NULL
        /\ StringsOf("s") = {EscapeBytes(arg.digits) \o arg.after}

-----------------------------------------------------------------------------
(* _Mytoml_ParseDatetime: the characters of the literal are gathered into  *)
(* value and matched against nine sscanf formats in turn; the first format *)
(* whose conversions all succeed decides.                                  *)

TOML_DATETIME == "TOML_DATETIME"
TOML_DATETIMELOCAL == "TOML_DATETIMELOCAL"
TOML_DATELOCAL == "TOML_DATELOCAL"
TOML_TIMELOCAL == "TOML_TIMELOCAL"

MYTOML_MAX_DATE_FORMAT == 64

\* The directives of a format: %<n>c into a buffer, %d into millis, and a
\* character that must be matched.
ScanChars(n, to) == [kind |-> "c", n |-> n, to |-> to, c |-> NUL]
ScanInt(to) == [kind |-> "d", n |-> 0, to |-> to, c |-> NUL]
ScanLit(c) == [kind |-> "lit", n |-> 0, to |-> "", c |-> c]

\* The buffers of _Mytoml_ParseDatetime, all zero before the first sscanf.
ZeroBufs ==
    [year |-> << >>, mon |-> << >>, mday |-> << >>, hour |-> << >>,
     min |-> << >>, sec |-> << >>, delim |-> << >>, tz |-> << >>,
     off_s |-> << >>, off_h |-> << >>, off_m |-> << >>, millis |-> 0]

\* The smaller of two numbers.
Least(a, b) == IF a < b THEN a ELSE b

RECURSIVE DecimalRun(_)
DecimalRun(s) ==
    IF s # << >> /\ Head(s) \in Digit THEN <<Head(s)>> \o DecimalRun(Tail(s))
    ELSE << >>

RECURSIVE SkipSpace(_)
SkipSpace(s) ==
    IF s # << >> /\ Head(s) \in {SP, TAB, NL} THEN SkipSpace(Tail(s)) ELSE s

RECURSIVE DecValue(_)
DecValue(ds) ==
    IF ds = << >> THEN 0
    ELSE 10 * DecValue(SubSeq(ds, 1, Len(ds) - 1))
            + (CHOOSE d \in 0..9 : ToString(d) = ds[Len(ds)])

\* What %d and strtoul(.., 10) read at the head of s: white space, one
\* sign, decimal digits.  used is the number of characters they take, 0 when
\* there is no digit; num is the number as it is after conversion to int.
ReadInt(s) ==
    LET s1 == SkipSpace(s)
        signed == s1 # << >> /\ Head(s1) \in {"+", "-"}
        s2 == IF signed THEN Tail(s1) ELSE s1
        run == DecimalRun(s2)
    IN  [used |-> IF run = << >> THEN 0 ELSE Len(s) - Len(s2) + Len(run),
         num |-> IF signed /\ Head(s1) = "-" THEN 0 - DecValue(run)
                 ELSE DecValue(run)]

\* sscanf(value, format, ...): t counts the conversions done, b holds the
\* buffers.  %<n>c takes up to n characters and fails only at the end of the
\* input; it overwrites the head of its buffer and leaves the rest.
RECURSIVE Sscanf(_, _, _, _)
Sscanf(value, format, b, t) ==
    IF format = << >> THEN [t |-> t, b |-> b]
    ELSE IF Head(format).kind = "lit"
    THEN IF value # << >> /\ Head(value) = Head(format).c
         THEN Sscanf(Tail(value), Tail(format), b, t)
         ELSE [t |-> t, b |-> b]
    ELSE IF Head(format).kind = "c"
    THEN IF value = << >> THEN [t |-> t, b |-> b]
         ELSE Sscanf(SubSeq(value, Least(Head(format).n, Len(value)) + 1, Len(value)),
                     Tail(format),
                     [b EXCEPT ![Head(format).to] =
                         SubSeq(value, 1, Least(Head(format).n, Len(value)))
                           \o SubSeq(@, Least(Head(format).n, Len(value)) + 1, Len(@))],
                     t + 1)
    ELSE IF ReadInt(value).used = 0 THEN [t |-> t, b |-> b]
         ELSE Sscanf(SubSeq(value, ReadInt(value).used + 1, Len(value)),
                     Tail(format),
                     [b EXCEPT ![Head(format).to] = ReadInt(value).num],
                     t + 1)

DateDirectives ==
    <<ScanChars(4, "year"), ScanLit("-"), ScanChars(2, "mon"), ScanLit("-"),
      ScanChars(2, "mday")>>
TimeDirectives ==
    <<ScanChars(2, "hour"), ScanLit(":"), ScanChars(2, "min"), ScanLit(":"),
      ScanChars(2, "sec")>>
DatetimeDirectives == DateDirectives \o <<ScanChars(1, "delim")>> \o TimeDirectives
MillisDirectives == <<ScanLit("."), ScanInt("millis")>>
OffsetDirectives ==
    <<ScanChars(1, "off_s"), ScanChars(2, "off_h"), ScanLit(":"),
      ScanChars(2, "off_m")>>

\* CHECK_DATETIME(VAR, LEN): the buffer holds LEN characters and strtoul
\* takes them all.
CHECK_DATETIME(var, len) == Len(var) = len /\ ReadInt(var).used = len

DateChecked(b) ==
    CHECK_DATETIME(b.year, 4) /\ CHECK_DATETIME(b.mon, 2) /\ CHECK_DATETIME(b.mday, 2)
TimeChecked(b) ==
    CHECK_DATETIME(b.hour, 2) /\ CHECK_DATETIME(b.min, 2) /\ CHECK_DATETIME(b.sec, 2)

TimeOf(b) ==
    CHECK_TIME(ZeroTm, ReadInt(b.hour).num, ReadInt(b.min).num, ReadInt(b.sec).num)
DateTimeOf(b) ==
    CHECK_TIME(CHECK_DATE(ZeroTm, ReadInt(b.year).num, ReadInt(b.mon).num,
                          ReadInt(b.mday).num),
               ReadInt(b.hour).num, ReadInt(b.min).num, ReadInt(b.sec).num)

DelimChecked(b) == Len(b.delim) = 1 /\ b.delim[1] \in {"T", "t", SP}

\* if (delim[0] == ' ') spaces = 0;
SpacesAfter(b, spaces) == IF b.delim[1] = SP THEN 0 ELSE spaces

\* The decimal digits of n, as %d prints them.
RECURSIVE DecChars(_)
DecChars(n) ==
    IF n < 0 THEN <<"-">> \o DecChars(0 - n)
    ELSE IF n < 10 THEN <<ToString(n)>>
    ELSE DecChars(n \div 10) \o <<ToString(n % 10)>>

\* mlen = floor(log10(abs(millis))) + 1, the number of decimal digits of
\* millis.  log10(0) is minus infinity, and so is mlen then: no length
\* equals it, it is neither 1 nor 2 and it is not greater than 3.
MlenIsFinite(millis) == millis # 0
Mlen(millis) == Len(DecChars(IF millis < 0 THEN 0 - millis ELSE millis))

\* if (mlen == 1) millis *= 100; if (mlen == 2) millis *= 10;
Scaled(millis) ==
    IF MlenIsFinite(millis) /\ Mlen(millis) = 1 THEN millis * 100
    ELSE IF MlenIsFinite(millis) /\ Mlen(millis) = 2 THEN millis * 10
    ELSE millis

\* strlen(value) == strlen(shape) + mlen + spaces
LengthChecked(value, shape, millis, spaces) ==
    MlenIsFinite(millis) /\ Len(value) = shape + Mlen(millis) + spaces

\* mlen = (mlen > 3) ? mlen : 3
Mlen3(millis) ==
    IF MlenIsFinite(millis) /\ Mlen(millis) > 3 THEN Mlen(millis) ELSE 3

\* snprintf(dt->format, sz, ...): at most sz - 1 characters are written.
Snprintf(sz, chars) == SubSeq(chars, 1, Least(sz - 1, Len(chars)))

TimeFormat == <<"%", "H", ":", "%", "M", ":", "%", "S">>
DatetimeFormat == <<"%", "Y", "-", "%", "m", "-", "%", "d", "T">> \o TimeFormat

\* What _Mytoml_ParseDatetime returns: NULL (ok is FALSE) or a Datetime.
\* shape names the format that matched.
NoDatetime(shape) ==
    [ok |-> FALSE, shape |-> shape, type |-> "NULL", millis |-> 0,
     format |-> << >>, time |-> ZeroTm]

NewDatetime(shape, type, time, millis, format) ==
    [ok |-> TRUE, shape |-> shape, type |-> type, millis |-> millis,
     format |-> format, time |-> time]

\* TIMELOCAL with millisecond
TimeMillis(value, spaces, b) ==
    IF TimeChecked(b)
       /\ _Mytoml_IsValidDatetime([TimeOf(b) EXCEPT !.tm_year = 0, !.tm_mon = 0,
                                                     !.tm_mday = 1])
       /\ LengthChecked(value, 9, b.millis, spaces)
       /\ 9 + Mlen3(b.millis) + 1 < MYTOML_MAX_DATE_FORMAT
    THEN NewDatetime("time.millis", TOML_TIMELOCAL,
                     [TimeOf(b) EXCEPT !.tm_year = 0, !.tm_mon = 0, !.tm_mday = 1],
                     Scaled(b.millis),
                     Snprintf(9 + Mlen3(b.millis) + 1,
                              TimeFormat \o <<".">> \o DecChars(Scaled(b.millis))))
    ELSE NoDatetime("time.millis")

\* DATETIMELOCAL with millisecond
LocalMillis(value, spaces, b) ==
    IF DelimChecked(b) /\ DateChecked(b) /\ TimeChecked(b)
       /\ _Mytoml_IsValidDatetime(DateTimeOf(b))
       /\ LengthChecked(value, 20, b.millis, SpacesAfter(b, spaces))
       /\ 18 + Mlen3(b.millis) + 1 < MYTOML_MAX_DATE_FORMAT
    THEN NewDatetime("local.millis", TOML_DATETIMELOCAL, DateTimeOf(b),
                     Scaled(b.millis),
                     Snprintf(18 + Mlen3(b.millis) + 1,
                              DatetimeFormat \o <<".">> \o DecChars(Scaled(b.millis))))
    ELSE NoDatetime("local.millis")

\* DATETIME with millisecond and timezone
ZuluMillis(value, spaces, b) ==
    IF DelimChecked(b) /\ Len(b.tz) = 1 /\ b.tz[1] \in {"Z", "z"}
       /\ DateChecked(b) /\ TimeChecked(b)
       /\ _Mytoml_IsValidDatetime(DateTimeOf(b))
       /\ LengthChecked(value, 21, b.millis, SpacesAfter(b, spaces))
       /\ 19 + Mlen3(b.millis) + 1 < MYTOML_MAX_DATE_FORMAT
    THEN NewDatetime("zulu.millis", TOML_DATETIME, DateTimeOf(b),
                     Scaled(b.millis),
                     Snprintf(19 + Mlen3(b.millis) + 1,
                              DatetimeFormat \o <<".">> \o DecChars(Scaled(b.millis))
                                \o <<"Z">>))
    ELSE NoDatetime("zulu.millis")

\* DATETIME with millisecond and offset
OffsetMillis(value, spaces, b) ==
    IF DelimChecked(b) /\ Len(b.off_s) = 1 /\ b.off_s[1] \in {"+", "-"}
       /\ DateChecked(b) /\ TimeChecked(b)
       /\ _Mytoml_IsValidDatetime(DateTimeOf(b))
       /\ CHECK_DATETIME(b.off_h, 2)
       /\ ReadInt(b.off_h).num >= 0 /\ ReadInt(b.off_h).num <= 23
       /\ CHECK_DATETIME(b.off_m, 2)
       /\ ReadInt(b.off_m).num >= 0 /\ ReadInt(b.off_m).num <= 59
       /\ LengthChecked(value, 26, b.millis, SpacesAfter(b, spaces))
       /\ 24 + Mlen3(b.millis) + 1 < MYTOML_MAX_DATE_FORMAT
    THEN NewDatetime("offset.millis", TOML_DATETIME, DateTimeOf(b),
                     Scaled(b.millis),
                     Snprintf(24 + Mlen3(b.millis) + 1,
                              DatetimeFormat \o <<".">> \o DecChars(Scaled(b.millis))
                                \o b.off_s \o b.off_h \o <<":">> \o b.off_m))
    ELSE NoDatetime("offset.millis")

\* The nine formats in the order the code tries them, last first.  The
\* branches of the formats without a fraction are left at their match.
Format9(value, spaces, s) ==
    IF s.t = 3 THEN NoDatetime("time") ELSE NoDatetime("none")

Format8(value, spaces, s) ==
    IF s.t = 4 THEN TimeMillis(value, spaces, s.b)
    ELSE Format9(value, spaces, Sscanf(value, TimeDirectives, s.b, 0))

Format7(value, spaces, s) ==
    IF s.t = 3 THEN NoDatetime("date")
    ELSE Format8(value, spaces,
                 Sscanf(value, TimeDirectives \o MillisDirectives, s.b, 0))

Format6(value, spaces, s) ==
    IF s.t = 7 THEN NoDatetime("local")
    ELSE Format7(value, spaces, Sscanf(value, DateDirectives, s.b, 0))

Format5(value, spaces, s) ==
    IF s.t = 8 THEN NoDatetime("zulu")
    ELSE Format6(value, spaces, Sscanf(value, DatetimeDirectives, s.b, 0))

Format4(value, spaces, s) ==
    IF s.t = 8 THEN LocalMillis(value, spaces, s.b)
    ELSE Format5(value, spaces,
                 Sscanf(value, DatetimeDirectives \o <<ScanChars(1, "tz")>>, s.b, 0))

Format3(value, spaces, s) ==
    IF s.t = 9 THEN ZuluMillis(value, spaces, s.b)
    ELSE Format4(value, spaces,
                 Sscanf(value, DatetimeDirectives \o MillisDirectives, s.b, 0))

Format2(value, spaces, s) ==
    IF s.t = 10 THEN NoDatetime("offset")
    ELSE Format3(value, spaces,
                 Sscanf(value, DatetimeDirectives \o MillisDirectives
                                 \o <<ScanChars(1, "tz")>>, s.b, 0))

Format1(value, spaces, s) ==
    IF s.t = 11 THEN OffsetMillis(value, spaces, s.b)
    ELSE Format2(value, spaces,
                 Sscanf(value, DatetimeDirectives \o OffsetDirectives, s.b, 0))

\* The loop of _Mytoml_ParseDatetime: characters go into value up to a
\* second white space or a character of num_end.
RECURSIVE DatetimeLoop(_, _, _, _)
DatetimeLoop(t, value, spaces, num_end) ==
    IF ~_Mytoml_TokenizerHasToken(t) THEN [tok |-> t, dt |-> NoDatetime("none")]
    ELSE IF ~(Len(value) < MYTOML_MAX_STRING_LENGTH)
    THEN [tok |-> t, dt |-> NoDatetime("none")]
    ELSE IF (_Mytoml_IsWhitespace(t.token) /\ spaces # 0)
            \/ (~_Mytoml_IsWhitespace(t.token) /\ _Mytoml_IsNumberEnd(t.token, num_end))
    THEN [tok |-> t,
          dt |-> Format1(value, spaces,
                         Sscanf(value, DatetimeDirectives \o MillisDirectives
                                         \o OffsetDirectives, ZeroBufs, 0))]
    ELSE DatetimeLoop(_Mytoml_NextTokenizerToken(t), Append(value, t.token),
                      IF _Mytoml_IsWhitespace(t.token) THEN spaces + 1 ELSE spaces,
                      num_end)

_Mytoml_ParseDatetime(t, num_end) == DatetimeLoop(t, << >>, 0, num_end)

-----------------------------------------------------------------------------
(* Specification SpecFraction: _Mytoml_ParseDatetime on the literals with  *)
(* fractional seconds, every fraction of up to MaxFraction digits.         *)

MaxFraction == 3
FractionChars == {"0", "1", "5"}

Fractions == SeqsUpTo(FractionChars, MaxFraction) \ {<< >>}

Clocks == {<<"0", "7", ":", "3", "2", ":", "0", "0">>,
           <<"2", "3", ":", "5", "9", ":", "5", "9">>}

Dates == {<<"1", "9", "7", "9", "-", "0", "5", "-", "2", "7", d>> : d \in {"T", SP}}

\* The text before the fraction and the text after it, for each shape.
FractionShapes ==
    {[name |-> "time.millis", head |-> c, tail |-> << >>] : c \in Clocks}
    \cup {[name |-> "local.millis", head |-> d \o c, tail |-> << >>] :
             d \in Dates, c \in Clocks}
    \cup {[name |-> "zulu.millis", head |-> d \o c, tail |-> <<"Z">>] :
             d \in Dates, c \in Clocks}
    \cup {[name |-> "offset.millis", head |-> d \o c,
           tail |-> <<"+", "0", "1", ":", "0", "0">>] : d \in Dates, c \in Clocks}

FractionInit ==
    /\ IdleTok /\ IdleKinds /\ IdleLoad
    /\ result = NoCall
    /\ \E shape \in FractionShapes, fraction \in Fractions :
          arg = [name |-> "fraction", shape |-> shape.name,
                 fraction |-> fraction,
                 value |-> shape.head \o <<".">> \o fraction \o shape.tail]

\* _Mytoml_ParseValue has backtracked to the first character of the literal
\* and calls _Mytoml_ParseDatetime; a newline ends the literal.
FractionParse ==
    LET Parsed(r) == result' = [name |-> "fraction", dt |-> r.dt,
                                at |-> r.tok.token]
    IN  /\ arg.name = "fraction"
        /\ result = NoCall
        /\ Parsed(_Mytoml_ParseDatetime(
               _Mytoml_NextTokenizerToken(
                   _Mytoml_NewTokenizer(
                       _Mytoml_TokenizerLoadInput(arg.value \o <<NL>>), NUL, 0)),
               {"#", SP, NL}))
        /\ UNCHANGED <<tokVars, kindVars, loadVars, arg>>

SpecFraction == FractionInit /\ [][FractionParse]_vars

\* The digits of a fraction as the normalisation to milliseconds keeps
\* them: one digit and two digits are filled with zeros to three.
RECURSIVE Normalized(_)
Normalized(fraction) ==
    IF Len(fraction) < 3 THEN Normalized(Append(fraction, "0")) ELSE fraction

\* The digits of the fraction in the format of a Datetime.
FractionOf(dt) ==
    LET dot == CHOOSE i \in 1..Len(dt.format) : dt.format[i] = "."
    IN  DecimalRun(SubSeq(dt.format, dot + 1, Len(dt.format)))

\* C29: a literal with fractional seconds whose date and clock fields are
\* valid is accepted whatever the digits of its fraction, and the fraction
\* of the format recorded for it holds these digits.
C29_FractionIsKept ==
    (result.name = "fraction") =>
        /\ result.dt.ok
        /\ FractionOf(result.dt) = Normalized(arg.fraction)

\* Every literal of the specification is decided by the format of its shape.
FractionShapeMatched ==
    (result.name = "fraction") => result.dt.shape = arg.shape

-----------------------------------------------------------------------------
(* Specification SpecTerm: tomlLoadFile on documents that begin inside a   *)
(* statement, a string, a key, an array or an inline table and go on with  *)
(* up to MaxTermChars characters, with and without a final newline.        *)
(* SpecTermLive adds that the loop of tomlLoadFile keeps running: the      *)
(* function is called on one thread and nothing suspends it.               *)

MaxTermChars == 3

TermChars ==
    {"a", "=", "1", NL, CR, SP, "#", DQ, "'", "\\", "[", "]", "{", "}", ",", "."}

TermHeads ==
    {<< >>, <<"a", "=">>, <<"a", "=", "1">>, <<"a", "=", DQ>>, <<"a", "=", "'">>,
     <<"a", "=", DQ, DQ, DQ>>, <<"a", "=", "[">>, <<"a", "=", "{", "b", "=">>,
     <<"[", "a">>, <<DQ, "a">>}

TermInit ==
    \E head \in TermHeads, rest \in SeqsUpTo(TermChars, MaxTermChars) :
        /\ arg = [name |-> "term", doc |-> head \o rest]
        /\ LoadFrom(head \o rest)

SpecTerm == TermInit /\ [][LoadNext]_vars

\* Weak fairness of LoadNext.  LoadStep is defined in every state that is
\* parsing and has a token, LoadReturn in every state that is parsing and has
\* none, and both change stmt or status: LoadNext is enabled exactly where
\* status is "parsing", which stands here for the enabling condition.
LoadFair == []<>(status # "parsing") \/ []<><<LoadNext>>_vars

SpecTermLive == SpecTerm /\ LoadFair

\* C30 (progress): a call of _Mytoml_ParseKeyValue in the loop of
\* tomlLoadFile that does not fail leaves the cursor further on than it
\* found it, and never beyond the end-of-input mark.
C30_StatementConsumes ==
    [][(status = "parsing" /\ status' = "parsing") =>
          /\ tok'.cursor > tok.cursor
          /\ tok'.cursor <= Len(tok.stream)]_vars

=============================================================================
